---- MODULE Spec2Model ----
(***************************************************************************)
(* A model of the layout engine of hypernetix/codematrix:                  *)
(*   - the three rectangle packers packItems, packItemsGuillotine and      *)
(*     packIntoColumns (binPacking, src/unnamed/part_001);                 *)
(*   - the node classifier categorizeNodesBySegment (src/.../index.tsx);   *)
(*   - the segment layout layoutNodesInSegment (src/.../index.tsx);        *)
(*   - the memoized values of CustomDiagramPanel: the column widths of     *)
(*     calculateGridLayout, classStructMethodsMap and folderGroups;        *)
(*   - the collapse state of CustomDiagramPanel and its four handlers;     *)
(*   - the crate selection of CodeMatrixVisualizer under file loads.       *)
(* The functions are pure; each is an operator computed the way the code   *)
(* computes it, and each specification draws the inputs in its initial     *)
(* state and applies the function in one action.  The two stateful parts   *)
(* have one action per handler.                                            *)
(***************************************************************************)
EXTENDS Integers, Sequences, FiniteSets, TLC

VARIABLES
    pc,              \* "ready" before the call, then the name of the function or handler that ran
    items,           \* PackableItem[] handed to a packer
    containerWidth,  \* the packers' containerWidth argument
    options,         \* the options object of the call
    result,          \* the PackingResult returned
    nodes,           \* NodeData[] handed to categorizeNodesBySegment or layoutNodesInSegment; crateNodes
    segments,        \* the Map<GridSegment, NodeData[]> returned
    segment,         \* the GridSegment handed to layoutNodesInSegment
    config,          \* the LayoutConfig handed to layoutNodesInSegment
    positions,       \* the rectangles layoutNodesInSegment returned
    allNodes,        \* every node of the document (erdData.nodes)
    edges,           \* every edge of the document (erdData.edges)
    classStructMethodsMap,  \* CustomDiagramPanel: Map<class id, NodeData[]>
    folderGroups,    \* CustomDiagramPanel: FolderGroup[]
    gridLayout,      \* CustomDiagramPanel: GridLayoutConfig
    expandAllState,  \* CustomDiagramPanel: 'none' | 'all-expanded' | 'all-collapsed'
    collapsedFolders,  \* CustomDiagramPanel: Set of `${segment}::${folder}`
    collapsedFiles,  \* CustomDiagramPanel: Set of `${segment}::${folder}|${file}`
    selectedCrate    \* CodeMatrixVisualizer: the id of the selected crate, or null

vars == <<pc, items, containerWidth, options, result, nodes, segments,
          segment, config, positions,
          allNodes, edges, classStructMethodsMap, folderGroups, gridLayout,
          expandAllState, collapsedFolders, collapsedFiles, selectedCrate>>

\* The collapse state of the folders and files of CustomDiagramPanel.
menuVars == <<expandAllState, collapsedFolders, collapsedFiles>>

\* The collapse state of a panel as it is mounted.
NoMenu == expandAllState = "none" /\ collapsedFolders = {} /\ collapsedFiles = {}

\* null, the value of selectedCrate when no crate is selected
NoCrate == <<>>

\* The properties and the memoized values of CustomDiagramPanel.
panelVars == <<allNodes, edges, classStructMethodsMap, folderGroups, gridLayout>>

\* No CustomDiagramPanel is rendered.
NoPanel ==
    /\ allNodes = <<>>
    /\ edges = <<>>
    /\ classStructMethodsMap = <<>>
    /\ folderGroups = <<>>
    /\ gridLayout = <<>>

\* The arguments and the result of layoutNodesInSegment.
layoutVars == <<segment, config, positions>>

\* No call of layoutNodesInSegment is made.
NoLayout == segment = "left-top" /\ config = <<>> /\ positions = <<>>

(***************************************************************************)
(* Bounds of the model.                                                    *)
(***************************************************************************)
MaxItems == 3
MaxDim == 2
MaxNodes == 2

ContainerWidths == {2, 5, 6, 12}

\* An optional field of an options object: <<>> when absent, <<v>> when given.
Absent == <<>>
Given(v) == <<v>>

PaddingOptions == {Absent, Given(0), Given(1), Given(2)}
SortOptions == {Absent, Given(TRUE), Given(FALSE)}
MinColumnWidthOptions == {Absent, Given(1), Given(2)}
MaxColumnsOptions == {Absent, Given(2)}

\* JavaScript's Infinity: larger than every finite number of the model, and
\* absorbing under + and -.
Infinity == 1000000

PlusInf(a, b) == IF a = Infinity \/ b = Infinity THEN Infinity ELSE a + b
MinusInf(a, b) == IF a = Infinity THEN Infinity ELSE a - b

MinOf(a, b) == IF a <= b THEN a ELSE b
MaxOf(a, b) == IF a >= b THEN a ELSE b

RECURSIVE MaxOfSeq(_, _)
\* Math.max(...s, floor)
MaxOfSeq(s, floor) ==
    IF s = <<>> THEN floor ELSE MaxOf(Head(s), MaxOfSeq(Tail(s), floor))

\* `opt || dflt` on a number: an absent field and 0 both give the default.
OrDefault(opt, dflt) == IF opt = Absent \/ opt[1] = 0 THEN dflt ELSE opt[1]

DefaultPadding == 3
DefaultMinColumnWidth == 150
DefaultMaxColumns == 4

(***************************************************************************)
(* PackableItem and PackedItem.                                            *)
(***************************************************************************)
PackableItem(i, w, h) ==
    [id |-> i, width |-> w, height |-> h, data |-> <<"payload", i>>]

\* { ...item, x, y }
Positioned(item, px, py) ==
    [id |-> item.id, width |-> item.width, height |-> item.height,
     data |-> item.data, x |-> px, y |-> py]

\* The sort keys of the packers: height (packItems) and area (packItemsGuillotine).
SortKey(item, by) ==
    IF by = "height" THEN item.height ELSE item.width * item.height

RECURSIVE InsertDesc(_, _, _)
\* Insert x behind every element whose key is >= x's (stable, descending).
InsertDesc(s, x, by) ==
    IF s = <<>> THEN <<x>>
    ELSE IF SortKey(Head(s), by) >= SortKey(x, by)
         THEN <<Head(s)>> \o InsertDesc(Tail(s), x, by)
         ELSE <<x>> \o s

RECURSIVE SortDesc(_, _)
\* [...items].sort((a, b) => key(b) - key(a)): Array.prototype.sort is stable.
SortDesc(s, by) ==
    IF s = <<>> THEN <<>>
    ELSE InsertDesc(SortDesc(SubSeq(s, 1, Len(s) - 1), by), s[Len(s)], by)

(***************************************************************************)
(* packItems: shelf packing.                                               *)
(***************************************************************************)
\* The test of line 62.
ShelfFits(shelf, itemWidth, itemHeight, cw) ==
    shelf.width + itemWidth <= cw /\ itemHeight <= shelf.height

\* A faulty FirstShelf: the last shelf that passes the test.
FirstShelfLatest(shelves, itemWidth, itemHeight, cw) ==
    LET fit == {k \in 1..Len(shelves) :
                    ShelfFits(shelves[k], itemWidth, itemHeight, cw)}
    IN IF fit = {} THEN 0 ELSE CHOOSE k \in fit : \A j \in fit : k >= j

\* The first shelf, in creation order, that passes the test; 0 when none does.
FirstShelf(shelves, itemWidth, itemHeight, cw) ==
    LET fit == {k \in 1..Len(shelves) :
                    ShelfFits(shelves[k], itemWidth, itemHeight, cw)}
    IN IF fit = {} THEN 0 ELSE CHOOSE k \in fit : \A j \in fit : k <= j

\* A faulty NewShelf: the shelf's used width leaves out the first item's padding.
NewShelfNoPadding(currentY, itemWidth, itemHeight, padding) ==
    [y |-> currentY, height |-> itemHeight, width |-> itemWidth - padding]

\* The shelf opened for an item that fits no shelf.
NewShelf(currentY, itemWidth, itemHeight, padding) ==
    [y |-> currentY, height |-> itemHeight, width |-> itemWidth]

\* A faulty AdvanceY: the next shelf starts one padding too high.
AdvanceYNoPadding(currentY, itemHeight, padding) == currentY + itemHeight - padding

\* currentY += itemHeight
AdvanceY(currentY, itemHeight, padding) == currentY + itemHeight

\* One iteration of the loop over sortedItems.
ShelfStep(st, item, padding, cw) ==
    LET itemWidth == item.width + padding
        itemHeight == item.height + padding
        k == FirstShelf(st.shelves, itemWidth, itemHeight, cw)
    IN IF k # 0
       THEN [shelves |-> [st.shelves EXCEPT ![k].width = @ + itemWidth],
             packed |-> Append(st.packed,
                               Positioned(item, st.shelves[k].width, st.shelves[k].y)),
             currentY |-> st.currentY]
       ELSE [shelves |-> Append(st.shelves,
                                NewShelf(st.currentY, itemWidth, itemHeight, padding)),
             packed |-> Append(st.packed, Positioned(item, padding, st.currentY)),
             currentY |-> AdvanceY(st.currentY, itemHeight, padding)]

RECURSIVE ShelfLoop(_, _, _, _)
ShelfLoop(sorted, st, padding, cw) ==
    IF sorted = <<>> THEN st
    ELSE ShelfLoop(Tail(sorted), ShelfStep(st, Head(sorted), padding, cw), padding, cw)

ShelfOrder(its, opts) ==
    IF opts.sortByHeight # Given(FALSE) THEN SortDesc(its, "height") ELSE its

packItems(its, cw, opts) ==
    LET padding == OrDefault(opts.padding, DefaultPadding)
        st == ShelfLoop(ShelfOrder(its, opts),
                        [shelves |-> <<>>, packed |-> <<>>, currentY |-> padding],
                        padding, cw)
    IN [items |-> st.packed, containerWidth |-> cw, containerHeight |-> st.currentY]

(***************************************************************************)
(* packItemsGuillotine: guillotine packing over a list of free rectangles. *)
(***************************************************************************)
FreeRect(px, py, w, h) == [x |-> px, y |-> py, width |-> w, height |-> h]

\* function rectanglesOverlap(a, b)
rectanglesOverlap(a, b) ==
    ~ (  PlusInf(a.x, a.width) <= b.x
      \/ PlusInf(b.x, b.width) <= a.x
      \/ PlusInf(a.y, a.height) <= b.y
      \/ PlusInf(b.y, b.height) <= a.y )

\* A faulty RectFits: the width of the free rectangle is not tested.
RectFitsHeightOnly(rect, itemWidth, itemHeight) == rect.height >= itemHeight

\* The test of line 147.
RectFits(rect, itemWidth, itemHeight) ==
    rect.width >= itemWidth /\ rect.height >= itemHeight

\* Math.min(leftoverHoriz, leftoverVert)
ShortSideFit(rect, itemWidth, itemHeight) ==
    MinOf(rect.width - itemWidth, MinusInf(rect.height, itemHeight))

\* The loop of lines 146-158: the first rectangle, in list order, with the
\* least short-side fit among those the item fits; 0 when there is none.
BestRect(freeRects, itemWidth, itemHeight) ==
    LET fit == {k \in 1..Len(freeRects) : RectFits(freeRects[k], itemWidth, itemHeight)}
        ssf(k) == ShortSideFit(freeRects[k], itemWidth, itemHeight)
        best == {k \in fit : \A j \in fit : ssf(k) <= ssf(j)}
    IN IF fit = {} THEN 0 ELSE CHOOSE k \in best : \A j \in best : k <= j

\* A faulty SplitRects: the right rectangle runs down the whole of bestRect.
SplitRectsFullHeight(best, itemWidth, itemHeight) ==
    (IF best.width > itemWidth
        THEN <<FreeRect(best.x + itemWidth, best.y, best.width - itemWidth, best.height)>>
        ELSE <<>>)
    \o
    (IF best.height > itemHeight
        THEN <<FreeRect(best.x, best.y + itemHeight, best.width,
                        MinusInf(best.height, itemHeight))>>
        ELSE <<>>)

\* The right and bottom rectangles left of bestRect (lines 169-189).
SplitRects(best, itemWidth, itemHeight) ==
    (IF best.width > itemWidth
        THEN <<FreeRect(best.x + itemWidth, best.y, best.width - itemWidth, itemHeight)>>
        ELSE <<>>)
    \o
    (IF best.height > itemHeight
        THEN <<FreeRect(best.x, best.y + itemHeight, best.width,
                        MinusInf(best.height, itemHeight))>>
        ELSE <<>>)

\* freeRects.splice(k, 1)
RemoveAt(s, k) == SubSeq(s, 1, k - 1) \o SubSeq(s, k + 1, Len(s))

RECURSIVE PruneOverlapping(_, _)
\* The loop of lines 197-204, from index i (1-based) down: a rectangle that
\* overlaps one before it in the list is removed.
PruneOverlapping(freeRects, i) ==
    IF i < 1 THEN freeRects
    ELSE IF \E j \in 1..(i - 1) : rectanglesOverlap(freeRects[i], freeRects[j])
         THEN PruneOverlapping(RemoveAt(freeRects, i), i - 1)
         ELSE PruneOverlapping(freeRects, i - 1)

\* One iteration of the loop over sortedItems.
GuillotineStep(st, item, padding) ==
    LET itemWidth == item.width + padding
        itemHeight == item.height + padding
        k == BestRect(st.freeRects, itemWidth, itemHeight)
    IN IF k = 0 THEN st
       ELSE LET best == st.freeRects[k]
                rects == RemoveAt(st.freeRects, k)
                             \o SplitRects(best, itemWidth, itemHeight)
            IN [freeRects |-> PruneOverlapping(rects, Len(rects)),
                packed |-> Append(st.packed, Positioned(item, best.x, best.y))]

RECURSIVE GuillotineLoop(_, _, _)
GuillotineLoop(sorted, st, padding) ==
    IF sorted = <<>> THEN st
    ELSE GuillotineLoop(Tail(sorted), GuillotineStep(st, Head(sorted), padding), padding)

GuillotineStart(cw, padding) ==
    [freeRects |-> <<FreeRect(padding, padding, cw - padding * 2, Infinity)>>,
     packed |-> <<>>]

BottomOf(packed) == [k \in 1..Len(packed) |-> packed[k].y + packed[k].height]
TopOf(packed) == [k \in 1..Len(packed) |-> packed[k].y]

\* A faulty GuillotineHeight: the maximum is taken over item.y alone.
GuillotineHeightOfTops(packed, padding) == MaxOfSeq(TopOf(packed), 0) + padding

\* const maxY = Math.max(...packedItems.map(item => item.y + item.height), 0);
\* const containerHeight = maxY + padding;
GuillotineHeight(packed, padding) == MaxOfSeq(BottomOf(packed), 0) + padding

packItemsGuillotine(its, cw, opts) ==
    LET padding == OrDefault(opts.padding, DefaultPadding)
        st == GuillotineLoop(SortDesc(its, "area"), GuillotineStart(cw, padding), padding)
    IN [items |-> st.packed, containerWidth |-> cw,
        containerHeight |-> GuillotineHeight(st.packed, padding)]

(***************************************************************************)
(* packIntoColumns: round-robin column packing.                            *)
(***************************************************************************)
\* Math.min(Math.max(1, Math.floor(containerWidth / minColumnWidth)), maxColumns)
NumColumns(cw, opts) ==
    MinOf(MaxOf(1, cw \div OrDefault(opts.minColumnWidth, DefaultMinColumnWidth)),
          OrDefault(opts.maxColumns, DefaultMaxColumns))

\* items.forEach((item, index) => ...), index = k - 1
ColumnStep(st, item, k, numColumns, columnWidth, padding) ==
    LET columnIndex == (k - 1) % numColumns
        y == st.columnHeights[columnIndex + 1]
    IN [columns |-> [st.columns EXCEPT ![columnIndex + 1] =
                        Append(@, Positioned(item, columnIndex * columnWidth + padding, y))],
        columnHeights |-> [st.columnHeights EXCEPT ![columnIndex + 1] =
                        y + item.height + padding]]

RECURSIVE ColumnLoop(_, _, _, _, _, _)
ColumnLoop(its, k, st, numColumns, columnWidth, padding) ==
    IF k > Len(its) THEN st
    ELSE ColumnLoop(its, k + 1,
                    ColumnStep(st, its[k], k, numColumns, columnWidth, padding),
                    numColumns, columnWidth, padding)

RECURSIVE Flat(_)
\* columns.flat()
Flat(columns) == IF columns = <<>> THEN <<>> ELSE Head(columns) \o Flat(Tail(columns))

packIntoColumns(its, cw, opts) ==
    LET padding == OrDefault(opts.padding, DefaultPadding)
        numColumns == NumColumns(cw, opts)
        columnWidth == cw \div numColumns
        st == ColumnLoop(its, 1,
                         [columns |-> [c \in 1..numColumns |-> <<>>],
                          columnHeights |-> [c \in 1..numColumns |-> padding]],
                         numColumns, columnWidth, padding)
    IN [items |-> Flat(st.columns), containerWidth |-> cw,
        containerHeight |-> MaxOfSeq(st.columnHeights, padding)]

(***************************************************************************)
(* The packing specification: the initial state draws the item list and    *)
(* the container width, each action calls one packer with its options.     *)
(***************************************************************************)
RECURSIVE ItemLists(_)
\* The item lists of length n; the item at position k has id k.
ItemLists(n) ==
    IF n = 0 THEN {<<>>}
    ELSE {Append(s, PackableItem(n, w, h)) :
              s \in ItemLists(n - 1), w \in 1..MaxDim, h \in 1..MaxDim}

NoOptions ==
    [padding |-> Absent, sortByHeight |-> Absent,
     minColumnWidth |-> Absent, maxColumns |-> Absent]

NoResult == [items |-> <<>>, containerWidth |-> 0, containerHeight |-> 0]

NoSegments == <<>>

InitPack ==
    /\ pc = "ready"
    /\ items \in UNION {ItemLists(n) : n \in 0..MaxItems}
    /\ containerWidth \in ContainerWidths
    /\ options = NoOptions
    /\ result = NoResult
    /\ nodes = <<>>
    /\ segments = NoSegments
    /\ NoLayout
    /\ NoPanel
    /\ NoMenu
    /\ selectedCrate = NoCrate

CallPackItems ==
    /\ pc = "ready"
    /\ \E p \in PaddingOptions, s \in SortOptions :
          /\ options' = [NoOptions EXCEPT !.padding = p, !.sortByHeight = s]
          /\ result' = packItems(items, containerWidth, options')
    /\ pc' = "packItems"
    /\ UNCHANGED <<items, containerWidth, nodes, segments, layoutVars, panelVars, menuVars, selectedCrate>>

CallPackItemsGuillotine ==
    /\ pc = "ready"
    /\ \E p \in PaddingOptions :
          /\ options' = [NoOptions EXCEPT !.padding = p]
          /\ result' = packItemsGuillotine(items, containerWidth, options')
    /\ pc' = "packItemsGuillotine"
    /\ UNCHANGED <<items, containerWidth, nodes, segments, layoutVars, panelVars, menuVars, selectedCrate>>

CallPackIntoColumns ==
    /\ pc = "ready"
    /\ \E p \in PaddingOptions, m \in MinColumnWidthOptions, c \in MaxColumnsOptions :
          /\ options' = [NoOptions EXCEPT !.padding = p, !.minColumnWidth = m,
                                          !.maxColumns = c]
          /\ result' = packIntoColumns(items, containerWidth, options')
    /\ pc' = "packIntoColumns"
    /\ UNCHANGED <<items, containerWidth, nodes, segments, layoutVars, panelVars, menuVars, selectedCrate>>

NextPack == CallPackItems \/ CallPackItemsGuillotine \/ CallPackIntoColumns

SpecPack == InitPack /\ [][NextPack]_vars

(***************************************************************************)
(* Strings.  A string is a sequence of atoms, chosen so that every pattern *)
(* the classifier searches for is a sequence of atoms and no atom holds a  *)
(* part of a pattern: "tests/" is <<"test", "s", "/">>.                    *)
(***************************************************************************)
\* String.prototype.toLowerCase on one atom.
LowerAtom(a) ==
    CASE a = "Foo" -> "foo"
      [] a = "Email" -> "email"
      [] a = "Client" -> "client"
      [] a = "Gateway" -> "gateway"
      [] a = "Test" -> "test"
      [] a = "Infra" -> "infra"
      [] a = "Crate" -> "crate"
      [] a = "Includes" -> "includes"
      [] a = "Struct" -> "struct"
      [] a = "Handler" -> "handler"
      [] a = "Kind" -> "kind"
      [] a = "Y" -> "y"
      [] a = "Repo" -> "repo"
      [] a = "Svc" -> "svc"
      [] a = "Root" -> "root"
      [] a = "Unknown" -> "unknown"
      [] OTHER -> a

\* s.toLowerCase()
ToLower(s) == [k \in 1..Len(s) |-> LowerAtom(s[k])]

\* s.includes(pat)
Includes(s, pat) ==
    \E k \in 0..(Len(s) - Len(pat)) : SubSeq(s, k + 1, k + Len(pat)) = pat

\* s.startsWith(pat)
StartsWith(s, pat) == Len(s) >= Len(pat) /\ SubSeq(s, 1, Len(pat)) = pat

\* A path separator: the filename is split at /[/\\]/.
IsSeparator(a) == a = "/" \/ a = "\\"

\* '/name/' and '\\name\\'
Slashed(name) == <<"/">> \o name \o <<"/">>
Backslashed(name) == <<"\\">> \o name \o <<"\\">>

(***************************************************************************)
(* NodeData.  filename and hierarchy are <<>> when missing (the code reads *)
(* both through `|| ''`); details is the set of sub-collections present.   *)
(***************************************************************************)
NodeData(id, type, name, filename, hierarchy, details) ==
    [id |-> id, type |-> type, name |-> name, filename |-> filename,
     hierarchy |-> hierarchy, details |-> details]

hasInfraInPath(node) ==
    \/ Includes(node.filename, Slashed(<<"infra">>))
    \/ Includes(node.filename, Backslashed(<<"infra">>))

hasApiOrContractInPath(node) ==
    \/ Includes(node.filename, Slashed(<<"api">>))
    \/ Includes(node.filename, Backslashed(<<"api">>))
    \/ Includes(node.filename, Slashed(<<"contract">>))
    \/ Includes(node.filename, Backslashed(<<"contract">>))

hasGatewayInPath(node) ==
    LET name == ToLower(node.name)
    IN \/ Includes(node.filename, Slashed(<<"gateway">>))
       \/ Includes(node.filename, Backslashed(<<"gateway">>))
       \/ Includes(node.filename, Slashed(<<"gateway", "s">>))
       \/ Includes(node.filename, Backslashed(<<"gateway", "s">>))
       \/ Includes(node.filename, Slashed(<<"client">>))
       \/ Includes(node.filename, Backslashed(<<"client">>))
       \/ Includes(node.filename, Slashed(<<"client", "s">>))
       \/ Includes(node.filename, Backslashed(<<"client", "s">>))
       \/ Includes(name, <<"gateway">>)
       \/ Includes(name, <<"client">>)

\* A faulty isTestNode: the test on 'tests/' and 'tests\\' in the filename
\* (PRIORITY 1) is left out.
isTestNodeWithoutTestsFolder(node) ==
    LET filename == ToLower(node.filename)
        name == ToLower(node.name)
        id == ToLower(node.id)
        hierarchy == ToLower(node.hierarchy)
    IN \/ Includes(filename, Slashed(<<"test">>))
       \/ Includes(filename, Backslashed(<<"test">>))
       \/ Includes(hierarchy, <<"test">>)
       \/ Includes(name, <<"_", "test">>)
       \/ Includes(name, <<"test", "_">>)
       \/ Includes(id, <<"_", "test">>)
       \/ Includes(id, <<"test", "_">>)
       \/ Includes(id, <<"::", "test", "::">>)
       \/ Includes(id, <<"::", "test", "s", "::">>)
       \/ StartsWith(id, <<"test", "::">>)
       \/ StartsWith(id, <<"test", "s", "::">>)

isTestNode(node) ==
    LET filename == ToLower(node.filename)
        name == ToLower(node.name)
        id == ToLower(node.id)
        hierarchy == ToLower(node.hierarchy)
        inTestFolder ==
            \/ Includes(filename, Slashed(<<"test">>))
            \/ Includes(filename, Backslashed(<<"test">>))
        inTestsHierarchy ==
            \/ Includes(hierarchy, <<"test", "s">>)
            \/ Includes(hierarchy, <<"test">>)
        hasTestInName ==
            \/ Includes(name, <<"_", "test">>)
            \/ Includes(name, <<"test", "_">>)
            \/ Includes(id, <<"_", "test">>)
            \/ Includes(id, <<"test", "_">>)
        inTestModule ==
            \/ Includes(id, <<"::", "test", "::">>)
            \/ Includes(id, <<"::", "test", "s", "::">>)
            \/ StartsWith(id, <<"test", "::">>)
            \/ StartsWith(id, <<"test", "s", "::">>)
    IN IF \/ Includes(filename, <<"test", "s", "/">>)
          \/ Includes(filename, <<"test", "s", "\\">>)
       THEN TRUE
       ELSE inTestFolder \/ inTestsHierarchy \/ hasTestInName \/ inTestModule

\* A faulty isDataType: a struct or dto is a data type whatever its details hold.
isDataTypeWhateverDetails(node) ==
    LET type == LowerAtom(node.type)
    IN type = "enum" \/ type = "struct" \/ type = "dto"

isDataType(node) ==
    LET type == LowerAtom(node.type)
    IN IF type = "enum" THEN TRUE
       ELSE IF type = "struct" \/ type = "dto"
            THEN "methods" \notin node.details /\ "functions" \notin node.details
            ELSE FALSE

isStructWithMethods(node) ==
    LET type == LowerAtom(node.type)
    IN IF type = "struct" \/ type = "dto"
       THEN "methods" \in node.details \/ "functions" \in node.details
       ELSE FALSE

isFreeFunction(node) == LowerAtom(node.type) = "function"

isClassStruct(node) == LowerAtom(node.type) = "class_struct"

isMethod(node) == LowerAtom(node.type) = "method"

\* A faulty IsCrate: the type is compared without toLowerCase().
IsCrateCaseSensitive(node) == node.type = "crate"

\* node.type.toLowerCase() === 'crate'
IsCrate(node) == LowerAtom(node.type) = "crate"

\* A faulty ColumnOf: the infra rule is tried before the gateway rule.
ColumnOfInfraFirst(node) ==
    IF hasInfraInPath(node) THEN "right"
    ELSE IF hasGatewayInPath(node) THEN "gateway"
    ELSE IF hasApiOrContractInPath(node) THEN "left"
    ELSE "middle"

\* "Determine column"
ColumnOf(node) ==
    IF hasGatewayInPath(node) THEN "gateway"
    ELSE IF hasInfraInPath(node) THEN "right"
    ELSE IF hasApiOrContractInPath(node) THEN "left"
    ELSE "middle"

\* "Determine row"
RowOf(node) ==
    IF isTestNode(node) THEN "tests"
    ELSE IF isDataType(node) THEN "top"
    ELSE IF isClassStruct(node) \/ isMethod(node) THEN "middle"
    ELSE IF isStructWithMethods(node) THEN "middle"
    ELSE IF isFreeFunction(node) THEN "bottom"
    ELSE "middle"

Columns == {"left", "middle", "right", "gateway"}
Rows == {"top", "middle", "bottom", "tests"}

\* `${column}-${row}`
SegmentName(column, row) ==
    CASE column = "left" /\ row = "top" -> "left-top"
      [] column = "left" /\ row = "middle" -> "left-middle"
      [] column = "left" /\ row = "bottom" -> "left-bottom"
      [] column = "left" /\ row = "tests" -> "left-tests"
      [] column = "middle" /\ row = "top" -> "middle-top"
      [] column = "middle" /\ row = "middle" -> "middle-middle"
      [] column = "middle" /\ row = "bottom" -> "middle-bottom"
      [] column = "middle" /\ row = "tests" -> "middle-tests"
      [] column = "right" /\ row = "top" -> "right-top"
      [] column = "right" /\ row = "middle" -> "right-middle"
      [] column = "right" /\ row = "bottom" -> "right-bottom"
      [] column = "right" /\ row = "tests" -> "right-tests"
      [] column = "gateway" /\ row = "top" -> "gateway-top"
      [] column = "gateway" /\ row = "middle" -> "gateway-middle"
      [] column = "gateway" /\ row = "bottom" -> "gateway-bottom"
      [] column = "gateway" /\ row = "tests" -> "gateway-tests"

allSegments ==
    <<"left-top", "left-middle", "left-bottom", "left-tests",
      "middle-top", "middle-middle", "middle-bottom", "middle-tests",
      "right-top", "right-middle", "right-bottom", "right-tests",
      "gateway-top", "gateway-middle", "gateway-bottom", "gateway-tests">>

\* The body of nodes.forEach in categorizeNodesBySegment.
CategorizeStep(segs, node) ==
    IF IsCrate(node) THEN segs
    ELSE [segs EXCEPT ![SegmentName(ColumnOf(node), RowOf(node))] = Append(@, node)]

RECURSIVE CategorizeLoop(_, _)
CategorizeLoop(ns, segs) ==
    IF ns = <<>> THEN segs
    ELSE CategorizeLoop(Tail(ns), CategorizeStep(segs, Head(ns)))

categorizeNodesBySegment(ns) ==
    CategorizeLoop(ns, [seg \in {allSegments[k] : k \in 1..Len(allSegments)} |-> <<>>])

(***************************************************************************)
(* The classifier specification: the initial state draws the node list,    *)
(* the action classifies it.                                               *)
(***************************************************************************)
Filenames ==
    { <<>>,
      <<"src", "/", "lib", ".rs">>,
      <<"src", "/", "infra", "/", "db", ".rs">>,
      <<"infra", "/", "db", ".rs">>,
      <<"src", "\\", "infra", "\\", "db", ".rs">>,
      <<"src", "/", "Infra", "/", "db", ".rs">>,
      <<"src", "/", "api", "/", "handler", ".rs">>,
      <<"src", "/", "contract", "/", "c", ".rs">>,
      <<"src", "/", "infra", "/", "api", "/", "h", ".rs">>,
      <<"src", "/", "infra", "/", "gateway", "/", "x", ".rs">>,
      <<"src", "/", "gateway", "s", "/", "email", "_", "client", ".rs">>,
      <<"src", "/", "client", "s", "/", "api", "/", "c", ".rs">>,
      <<"test", "s", "/", "y", "_", "test", ".rs">>,
      <<"src", "/", "Test", "s", "\\", "a", ".rs">>,
      <<"src", "/", "test", "/", "a", ".rs">> }

PlainFile == <<"src", "/", "lib", ".rs">>
TestsFile == <<"test", "s", "/", "y", "_", "test", ".rs">>

TypesAndDetails ==
    { <<"crate", {}>>, <<"Crate", {}>>, <<"enum", {"values"}>>,
      <<"struct", {}>>, <<"struct", {"attributes"}>>, <<"struct", {"methods"}>>,
      <<"Struct", {"attributes", "functions"}>>,
      <<"dto", {}>>, <<"dto", {"functions"}>>,
      <<"method", {"input_params"}>>, <<"function", {}>>, <<"function", {"methods"}>>,
      <<"trait", {}>> }

\* The id the analyzer gives a node: crate::x|<type>::<name>
IdOf(type, name) == <<"crate", "::", "x", "|", type, "::">> \o name

GatewayNamedFiles == { PlainFile, <<"src", "/", "infra", "/", "db", ".rs">> }

NodePool ==
    {NodeData(IdOf("class_struct", <<"Foo">>), "class_struct", <<"Foo">>, f, <<>>, {}) :
        f \in Filenames}
    \cup
    {NodeData(IdOf("class_struct", <<"Email", "Client">>), "class_struct",
              <<"Email", "Client">>, f, <<>>, {}) :
        f \in GatewayNamedFiles}
    \cup
    {NodeData(IdOf(td[1], <<"Foo">>), td[1], <<"Foo">>, f, <<>>, td[2]) :
        td \in TypesAndDetails, f \in {PlainFile, TestsFile}}
    \cup
    { NodeData(IdOf("struct", <<"Handler">>), "struct", <<"Handler">>,
               <<"src", "/", "api", "/", "handler", ".rs">>, <<>>, {}),
      NodeData(<<"crate", "::", "x", "|", "class_struct", "::", "Y", "|",
                 "method", "::", "z">>,
               "method", <<"z">>, TestsFile, <<>>, {}),
      NodeData(<<"crate", "::", "x", "::", "test", "s", "::", "helper">>,
               "function", <<"helper">>, PlainFile, <<>>, {}),
      NodeData(IdOf("function", <<"test", "_", "helper">>), "function",
               <<"test", "_", "helper">>, PlainFile, <<>>, {}),
      NodeData(IdOf("enum", <<"Kind">>), "enum", <<"Kind">>, PlainFile,
               <<"crate", "::", "Test", "s">>, {"values"}) }

InitCat ==
    /\ pc = "ready"
    /\ \E n \in 0..MaxNodes : nodes \in [1..n -> NodePool]
    /\ segments = NoSegments
    /\ items = <<>>
    /\ containerWidth = 0
    /\ options = NoOptions
    /\ result = NoResult
    /\ NoLayout
    /\ NoPanel
    /\ NoMenu
    /\ selectedCrate = NoCrate

CallCategorizeNodesBySegment ==
    /\ pc = "ready"
    /\ segments' = categorizeNodesBySegment(nodes)
    /\ pc' = "categorizeNodesBySegment"
    /\ UNCHANGED <<nodes, items, containerWidth, options, result, layoutVars, panelVars, menuVars, selectedCrate>>

NextCat == CallCategorizeNodesBySegment

SpecCat == InitCat /\ [][NextCat]_vars

(***************************************************************************)
(* The segment layout, layoutNodesInSegment (src/.../index.tsx).           *)
(***************************************************************************)
\* The names, the folders and the file names of the model's nodes in the
\* order of String.prototype.localeCompare.
NamesInOrder ==
    << <<"add">>, <<"bar">>, <<"db", ".rs">>, <<"email", "_", "client", ".rs">>,
       <<"Email", "Client">>, <<"Foo">>, <<"Handler">>, <<"handler", ".rs">>,
       <<"helper">>, <<"Kind">>, <<"lib", ".rs">>, <<"Repo">>, <<"Root">>,
       <<"src">>, <<"src", "/", "api">>, <<"src", "/", "gateway", "s">>,
       <<"src", "/", "infra">>, <<"Svc">>, <<"test", "_", "helper">>,
       <<"test", "s">>, <<"Unknown">>, <<"y", "_", "test", ".rs">>, <<"z">> >>

NameRank(name) == CHOOSE k \in 1..Len(NamesInOrder) : NamesInOrder[k] = name

\* a.localeCompare(b): negative, zero or positive
localeCompare(a, b) == NameRank(a) - NameRank(b)

\* s.sort((a, b) => key(a).localeCompare(key(b))), the order it leaves, with
\* keys[i] the key of s[i]: the sort is stable, the element at index i goes
\* behind the elements that compare lower and the earlier ones that compare
\* equal.
Sort(s, keys) ==
    LET place(i) == Cardinality({j \in 1..Len(s) :
                        \/ localeCompare(keys[j], keys[i]) < 0
                        \/ localeCompare(keys[j], keys[i]) = 0 /\ j <= i})
    IN [p \in 1..Len(s) |-> s[CHOOSE i \in 1..Len(s) : place(i) = p]]

\* ns.sort((a, b) => a.name.localeCompare(b.name))
SortByName(ns) == Sort(ns, [k \in 1..Len(ns) |-> ns[k].name])

\* The index of the last separator of a path, 0 when it has none.
LastSeparator(path) ==
    LET at == {k \in 1..Len(path) : IsSeparator(path[k])}
    IN IF at = {} THEN 0 ELSE CHOOSE k \in at : \A j \in at : j <= k

\* parts.slice(0, -1).join('/') of the filename split at / and \; '' without
\* a filename
getNodeFolder(node) ==
    IF node.filename = <<>> THEN <<>>
    ELSE [k \in 1..(LastSeparator(node.filename) - 1) |->
             IF IsSeparator(node.filename[k]) THEN "/" ELSE node.filename[k]]

\* The folders of the model's nodes in the order of Array.prototype.sort()
\* (by UTF-16 code units).
FoldersInOrder ==
    << <<>>, <<"src">>, <<"src", "/", "api">>, <<"src", "/", "infra">> >>

\* Array.from(nodesByFolder.keys()).sort()
sortedFolders(ns) ==
    SelectSeq(FoldersInOrder,
              LAMBDA folder : \E k \in 1..Len(ns) : getNodeFolder(ns[k]) = folder)

\* The index of the last '|' of an id, 0 when it has none.
LastPipe(id) ==
    LET at == {k \in 1..Len(id) : id[k] = "|"}
    IN IF at = {} THEN 0 ELSE CHOOSE k \in at : \A j \in at : j <= k

\* The id of the owning class of a method: the id up to its last '|'.  null
\* and '' both read as false in `if (parentId)`; both are <<>> here.
getParentClassId(node) ==
    IF ~ isMethod(node) THEN <<>>
    ELSE IF LastPipe(node.id) = 0 THEN <<>>
    ELSE SubSeq(node.id, 1, LastPipe(node.id) - 1)

\* A faulty groupClassesWithMethods: the groups stay in the order of the
\* class nodes in the list.
groupClassesWithMethodsUnsortedGroups(ns) ==
    LET classNodes == SelectSeq(ns, isClassStruct)
        methodNodes == SelectSeq(ns, isMethod)
        otherNodes == SelectSeq(ns, LAMBDA n : ~ isClassStruct(n) /\ ~ isMethod(n))
        methodsByClass(classId) ==
            SelectSeq(methodNodes,
                      LAMBDA m : /\ getParentClassId(m) # <<>>
                                 /\ getParentClassId(m) = classId)
        groups == [k \in 1..Len(classNodes) |->
                      [classNode |-> classNodes[k],
                       methods |-> SortByName(methodsByClass(classNodes[k].id))]]
    IN [groups |-> groups, orphanNodes |-> otherNodes]

\* { groups, orphanNodes }
groupClassesWithMethods(ns) ==
    LET classNodes == SelectSeq(ns, isClassStruct)
        methodNodes == SelectSeq(ns, isMethod)
        otherNodes == SelectSeq(ns, LAMBDA n : ~ isClassStruct(n) /\ ~ isMethod(n))
        \* methodsByClass.get(classId) || []: the methods whose parent id is
        \* classId, in the order of the list
        methodsByClass(classId) ==
            SelectSeq(methodNodes,
                      LAMBDA m : /\ getParentClassId(m) # <<>>
                                 /\ getParentClassId(m) = classId)
        groups == [k \in 1..Len(classNodes) |->
                      [classNode |-> classNodes[k],
                       methods |-> SortByName(methodsByClass(classNodes[k].id))]]
    IN [groups |-> Sort(groups, [k \in 1..Len(groups) |-> groups[k].classNode.name]),
        orphanNodes |-> otherNodes]

LayoutConfig(columnWidth, rowHeight, padding, dataTypeBox, structWithMethodsBox, classNode, methodNode) ==
    [columnWidth |-> columnWidth, rowHeight |-> rowHeight, padding |-> padding,
     dataTypeBoxWidth |-> dataTypeBox[1], dataTypeBoxHeight |-> dataTypeBox[2],
     structWithMethodsBoxWidth |-> structWithMethodsBox[1],
     structWithMethodsBoxHeight |-> structWithMethodsBox[2],
     classNodeWidth |-> classNode[1], classNodeHeight |-> classNode[2],
     methodNodeWidth |-> methodNode[1], methodNodeHeight |-> methodNode[2]]

DEFAULT_LAYOUT_CONFIG ==
    LayoutConfig(600, 400, 20, <<160, 60>>, <<320, 60>>, <<160, 60>>, <<240, 60>>)

\* config.padding / 2 and config.padding / 4.  Every padding of the model is
\* a multiple of 4, so both quotients are whole numbers.
Half(padding) == padding \div 2
Quarter(padding) == padding \div 4

\* One element of the array layoutNodesInSegment returns.
Rectangle(node, x, y, width, height) ==
    [node |-> node, x |-> x, y |-> y, width |-> width, height |-> height]

\* segment.split('-'): << column, row >>
SplitSegment(seg) ==
    CHOOSE p \in Columns \X Rows : SegmentName(p[1], p[2]) = seg

\* "Calculate segment base position"
BaseX(column, cfg) ==
    IF column = "left" THEN 0
    ELSE IF column = "middle" THEN cfg.columnWidth
    ELSE cfg.columnWidth * 2

BaseY(row, cfg) ==
    IF row = "top" THEN 0
    ELSE IF row = "middle" THEN cfg.rowHeight
    ELSE cfg.rowHeight * 2

\* The cursor of a loop of the layout and the rectangles pushed so far.
Cursor(currentX, currentY, maxHeightInRow, out) ==
    [currentX |-> currentX, currentY |-> currentY,
     maxHeightInRow |-> maxHeightInRow, result |-> out]

\* The body of folderNodes.forEach in the top row: wrap to the next line when
\* the box would pass the right edge, push the box, advance.
TopRowStep(cur, node, baseX, cfg) ==
    LET wrap == cur.currentX + cfg.dataTypeBoxWidth
                    > baseX + cfg.columnWidth - cfg.padding
        x == IF wrap THEN baseX + cfg.padding ELSE cur.currentX
        y == IF wrap THEN cur.currentY + cur.maxHeightInRow + Half(cfg.padding)
             ELSE cur.currentY
        maxHeight == IF wrap THEN 0 ELSE cur.maxHeightInRow
    IN Cursor(x + cfg.dataTypeBoxWidth + Half(cfg.padding), y,
              MaxOf(maxHeight, cfg.dataTypeBoxHeight),
              Append(cur.result,
                     Rectangle(node, x, y, cfg.dataTypeBoxWidth, cfg.dataTypeBoxHeight)))

RECURSIVE TopRowLoop(_, _, _, _)
TopRowLoop(ns, cur, baseX, cfg) ==
    IF ns = <<>> THEN cur
    ELSE TopRowLoop(Tail(ns), TopRowStep(cur, Head(ns), baseX, cfg), baseX, cfg)

\* The body of the loop of the last branch: the same wrapping with boxes of
\* methodNodeWidth x methodNodeHeight.
BottomRowStep(cur, node, baseX, cfg) ==
    LET boxWidth == cfg.methodNodeWidth
        boxHeight == cfg.methodNodeHeight
        wrap == cur.currentX + boxWidth > baseX + cfg.columnWidth - cfg.padding
        x == IF wrap THEN baseX + cfg.padding ELSE cur.currentX
        y == IF wrap THEN cur.currentY + cur.maxHeightInRow + Half(cfg.padding)
             ELSE cur.currentY
        maxHeight == IF wrap THEN 0 ELSE cur.maxHeightInRow
    IN Cursor(x + boxWidth + Half(cfg.padding), y, MaxOf(maxHeight, boxHeight),
              Append(cur.result, Rectangle(node, x, y, boxWidth, boxHeight)))

RECURSIVE BottomRowLoop(_, _, _, _)
BottomRowLoop(ns, cur, baseX, cfg) ==
    IF ns = <<>> THEN cur
    ELSE BottomRowLoop(Tail(ns), BottomRowStep(cur, Head(ns), baseX, cfg), baseX, cfg)

RECURSIVE TopRowOrder(_, _)
\* The order of the top row: folder after folder of the sorted folders, the
\* nodes of a folder sorted by name.
TopRowOrder(ns, folders) ==
    IF folders = <<>> THEN <<>>
    ELSE SortByName(SelectSeq(ns, LAMBDA n : getNodeFolder(n) = Head(folders)))
         \o TopRowOrder(ns, Tail(folders))

\* row === 'top'
LayoutTopRow(ns, baseX, baseY, cfg) ==
    TopRowLoop(TopRowOrder(ns, sortedFolders(ns)),
               Cursor(baseX + cfg.padding, baseY + cfg.padding, 0, <<>>),
               baseX, cfg).result

\* A faulty LayoutBottomRow: the nodes are laid out in the order the list has
\* at the call, before nodes.sort(...) reorders it.
LayoutBottomRowUnsorted(ns, baseX, baseY, cfg) ==
    BottomRowLoop(ns,
                  Cursor(baseX + cfg.padding, baseY + cfg.padding, 0, <<>>),
                  baseX, cfg).result

\* the bottom row and every other row: the order is that of nodes.sort(...)
LayoutBottomRow(ns, baseX, baseY, cfg) ==
    BottomRowLoop(SortByName(ns),
                  Cursor(baseX + cfg.padding, baseY + cfg.padding, 0, <<>>),
                  baseX, cfg).result

\* The width a column of class stacks takes.
StackColumnWidth(cfg) == MaxOf(cfg.classNodeWidth, cfg.methodNodeWidth) + cfg.padding

\* The body of groups.forEach: one class with its methods as a vertical stack.
GroupStep(cur, group, baseY, cfg) ==
    LET methodStep == cfg.methodNodeHeight + Quarter(cfg.padding)
        groupHeight == cfg.classNodeHeight + Len(group.methods) * methodStep
        newColumn ==
            \/ groupHeight > cfg.rowHeight - cfg.padding * 2
            \/ cur.currentY + groupHeight > baseY + cfg.rowHeight - cfg.padding
        x == IF newColumn THEN cur.currentX + StackColumnWidth(cfg) ELSE cur.currentX
        classY == IF newColumn THEN baseY + cfg.padding ELSE cur.currentY
        methodsY == classY + cfg.classNodeHeight + Quarter(cfg.padding)
        stack ==
            <<Rectangle(group.classNode, x, classY,
                        cfg.classNodeWidth, cfg.classNodeHeight)>>
            \o [k \in 1..Len(group.methods) |->
                   Rectangle(group.methods[k], x, methodsY + (k - 1) * methodStep,
                             cfg.methodNodeWidth, cfg.methodNodeHeight)]
        nextY == methodsY + Len(group.methods) * methodStep + Half(cfg.padding)
        full == nextY > baseY + cfg.rowHeight - cfg.padding - cfg.classNodeHeight
    IN Cursor(IF full THEN x + StackColumnWidth(cfg) ELSE x,
              IF full THEN baseY + cfg.padding ELSE nextY,
              0, cur.result \o stack)

RECURSIVE GroupLoop(_, _, _, _)
GroupLoop(groups, cur, baseY, cfg) ==
    IF groups = <<>> THEN cur
    ELSE GroupLoop(Tail(groups), GroupStep(cur, Head(groups), baseY, cfg), baseY, cfg)

\* The body of the loop over the sorted orphan nodes.
OrphanStep(cur, node, baseY, cfg) ==
    LET wrap == cur.currentY + cfg.structWithMethodsBoxHeight
                    > baseY + cfg.rowHeight - cfg.padding
        x == IF wrap THEN cur.currentX + cfg.structWithMethodsBoxWidth + cfg.padding
             ELSE cur.currentX
        y == IF wrap THEN baseY + cfg.padding ELSE cur.currentY
    IN Cursor(x, y + cfg.structWithMethodsBoxHeight + Half(cfg.padding), 0,
              Append(cur.result,
                     Rectangle(node, x, y, cfg.structWithMethodsBoxWidth,
                               cfg.structWithMethodsBoxHeight)))

RECURSIVE OrphanLoop(_, _, _, _)
OrphanLoop(ns, cur, baseY, cfg) ==
    IF ns = <<>> THEN cur
    ELSE OrphanLoop(Tail(ns), OrphanStep(cur, Head(ns), baseY, cfg), baseY, cfg)

\* row === 'middle'
LayoutMiddleRow(ns, baseX, baseY, cfg) ==
    LET grouped == groupClassesWithMethods(ns)
        afterGroups == GroupLoop(grouped.groups,
                                 Cursor(baseX + cfg.padding, baseY + cfg.padding, 0, <<>>),
                                 baseY, cfg)
    IN OrphanLoop(SortByName(grouped.orphanNodes), afterGroups, baseY, cfg).result

\* The array layoutNodesInSegment returns.
layoutNodesInSegment(ns, seg, cfg) ==
    LET column == SplitSegment(seg)[1]
        row == SplitSegment(seg)[2]
        baseX == BaseX(column, cfg)
        baseY == BaseY(row, cfg)
    IN IF row = "top" THEN LayoutTopRow(ns, baseX, baseY, cfg)
       ELSE IF row = "middle" THEN LayoutMiddleRow(ns, baseX, baseY, cfg)
       ELSE LayoutBottomRow(ns, baseX, baseY, cfg)

\* The caller's array after the call: nodes.sort(...) of the last branch
\* sorts the array it was handed; the other branches sort arrays of their own.
NodesAfterLayout(ns, seg) ==
    IF SplitSegment(seg)[2] \in {"top", "middle"} THEN ns ELSE SortByName(ns)

(***************************************************************************)
(* The layout specification: the initial state draws the node list, the    *)
(* segment and the configuration, the action lays the list out.            *)
(***************************************************************************)
\* The id of a method of the class with the given name.
MethodIdOf(className, name) ==
    IdOf("class_struct", className) \o <<"|", "method", "::">> \o name

LayoutPool ==
    { NodeData(IdOf("class_struct", <<"Foo">>), "class_struct", <<"Foo">>,
               PlainFile, <<>>, {}),
      NodeData(MethodIdOf(<<"Foo">>, <<"bar">>), "method", <<"bar">>,
               PlainFile, <<>>, {}),
      NodeData(MethodIdOf(<<"Foo">>, <<"add">>), "method", <<"add">>,
               <<"src", "/", "api", "/", "handler", ".rs">>, <<>>, {}),
      NodeData(IdOf("class_struct", <<"Email", "Client">>), "class_struct",
               <<"Email", "Client">>, PlainFile, <<>>, {}),
      NodeData(IdOf("struct", <<"Repo">>), "struct", <<"Repo">>,
               <<"src", "/", "infra", "/", "db", ".rs">>, <<>>, {"methods"}),
      NodeData(IdOf("enum", <<"Kind">>), "enum", <<"Kind">>, <<>>, <<>>, {"values"}),
      NodeData(IdOf("function", <<"helper">>), "function", <<"helper">>,
               <<"src", "\\", "api", "\\", "handler", ".rs">>, <<>>, {}) }

MaxLayoutNodes == 3

\* The lists of n different nodes of a pool (ids are unique in a document).
DistinctNodeLists(pool, n) ==
    {ns \in [1..n -> pool] : \A i, j \in 1..n : i < j => ns[i] # ns[j]}

\* The paddings; multiples of 4, see Half and Quarter.
Paddings == {0, 4}

\* Configurations with small boxes, so that a few nodes fill a line of the
\* column of a segment and a column of its row; and the default one.
LayoutConfigs ==
    { LayoutConfig(3 * (padding + 1) + 1, 2 * (padding + 1), padding, <<2, 1>>,
                   <<structWidth, 1>>, <<2, 1>>, <<methodWidth, 1>>) :
         padding \in Paddings, structWidth \in {1, 3}, methodWidth \in {1, 3} }
    \cup {DEFAULT_LAYOUT_CONFIG}

InitLayout ==
    /\ pc = "ready"
    /\ \E n \in 0..MaxLayoutNodes : nodes \in DistinctNodeLists(LayoutPool, n)
    /\ segment \in {allSegments[k] : k \in 1..Len(allSegments)}
    /\ config \in LayoutConfigs
    /\ positions = <<>>
    /\ segments = NoSegments
    /\ items = <<>>
    /\ containerWidth = 0
    /\ options = NoOptions
    /\ result = NoResult
    /\ NoPanel
    /\ NoMenu
    /\ selectedCrate = NoCrate

CallLayoutNodesInSegment ==
    /\ pc = "ready"
    /\ positions' = layoutNodesInSegment(nodes, segment, config)
    /\ nodes' = NodesAfterLayout(nodes, segment)
    /\ pc' = "layoutNodesInSegment"
    /\ UNCHANGED <<segment, config, segments, items, containerWidth, options, result,
                   panelVars, menuVars, selectedCrate>>

\* The caller hands the same array, segment and configuration to a second
\* call; the array is as the first call left it.
CallLayoutNodesInSegmentAgain ==
    /\ pc = "layoutNodesInSegment"
    /\ positions' = layoutNodesInSegment(nodes, segment, config)
    /\ nodes' = NodesAfterLayout(nodes, segment)
    /\ pc' = "layoutNodesInSegmentAgain"
    /\ UNCHANGED <<segment, config, segments, items, containerWidth, options, result,
                   panelVars, menuVars, selectedCrate>>

NextLayout == CallLayoutNodesInSegment \/ CallLayoutNodesInSegmentAgain

SpecLayout == InitLayout /\ [][NextLayout]_vars

(***************************************************************************)
(* The column widths, calculateGridLayout (src/.../gridLayoutAlgorithm.ts).*)
(***************************************************************************)
\* nodesByRow.get(key)?.length || 0
BucketSize(nodesByRow, key) ==
    IF key \in DOMAIN nodesByRow THEN Len(nodesByRow[key]) ELSE 0

\* A faulty calculateColumnStats: the nodes of the tests row are not counted
\* in totalNodes.
calculateColumnStatsWithoutTests(column, nodesByRow) ==
    LET dataStructNodes == BucketSize(nodesByRow, SegmentName(column, "top"))
        classNodes == BucketSize(nodesByRow, SegmentName(column, "middle"))
        freeFunctionNodes == BucketSize(nodesByRow, SegmentName(column, "bottom"))
        testNodes == BucketSize(nodesByRow, SegmentName(column, "tests"))
    IN [column |-> column,
        totalNodes |-> dataStructNodes + classNodes + freeFunctionNodes,
        dataStructNodes |-> dataStructNodes,
        classNodes |-> classNodes,
        freeFunctionNodes |-> freeFunctionNodes,
        testNodes |-> testNodes,
        maxNodesInAnyRow |-> MaxOf(MaxOf(dataStructNodes, classNodes),
                                   MaxOf(freeFunctionNodes, testNodes))]

calculateColumnStats(column, nodesByRow) ==
    LET dataStructNodes == BucketSize(nodesByRow, SegmentName(column, "top"))
        classNodes == BucketSize(nodesByRow, SegmentName(column, "middle"))
        freeFunctionNodes == BucketSize(nodesByRow, SegmentName(column, "bottom"))
        testNodes == BucketSize(nodesByRow, SegmentName(column, "tests"))
    IN [column |-> column,
        totalNodes |-> dataStructNodes + classNodes + freeFunctionNodes + testNodes,
        dataStructNodes |-> dataStructNodes,
        classNodes |-> classNodes,
        freeFunctionNodes |-> freeFunctionNodes,
        testNodes |-> testNodes,
        maxNodesInAnyRow |-> MaxOf(MaxOf(dataStructNodes, classNodes),
                                   MaxOf(freeFunctionNodes, testNodes))]

determineColumnWidth(stats, allStats) ==
    IF stats.column = "gateway" THEN "1/3fr"
    ELSE IF stats.totalNodes = 0 THEN "1/3fr"
    ELSE "1fr"

calculateGridLayout(nodesBySegment) ==
    LET leftStats == calculateColumnStats("left", nodesBySegment)
        middleStats == calculateColumnStats("middle", nodesBySegment)
        rightStats == calculateColumnStats("right", nodesBySegment)
        gatewayStats == calculateColumnStats("gateway", nodesBySegment)
        allStats == <<leftStats, middleStats, rightStats, gatewayStats>>
    IN [leftColumnWidth |-> determineColumnWidth(leftStats, allStats),
        middleColumnWidth |-> determineColumnWidth(middleStats, allStats),
        rightColumnWidth |-> determineColumnWidth(rightStats, allStats),
        gatewayColumnWidth |-> "1/3fr"]

(***************************************************************************)
(* The memoized values of CustomDiagramPanel: classStructMethodsMap and    *)
(* folderGroups (src/.../components/LeftMenu.tsx).                         *)
(***************************************************************************)
Edge(from, to, type) == [from |-> from, to |-> to, type |-> type]

\* map.get(key) || dflt and map.set(key, value); a Map is a function on its keys
MapGet(map, key, dflt) == IF key \in DOMAIN map THEN map[key] ELSE dflt
MapSet(map, key, value) ==
    [k \in DOMAIN map \cup {key} |-> IF k = key THEN value ELSE map[k]]

\* allNodes.find(n => n.id === id): << the first node with the id >>, or <<>>
FindById(ns, id) ==
    LET at == {k \in 1..Len(ns) : ns[k].id = id}
    IN IF at = {} THEN <<>> ELSE <<ns[CHOOSE k \in at : \A j \in at : k <= j]>>

\* The body of erdEdges.forEach in classStructMethodsMap.
MethodsMapStep(map, edge, all) ==
    IF /\ edge.type = "includes"
       /\ Includes(edge.from, <<"class_struct", "::">>)
       /\ Includes(edge.to, <<"|", "method", "::">>)
    THEN MapSet(map, edge.from, MapGet(map, edge.from, <<>>) \o FindById(all, edge.to))
    ELSE map

RECURSIVE MethodsMapLoop(_, _, _)
MethodsMapLoop(es, map, all) ==
    IF es = <<>> THEN map
    ELSE MethodsMapLoop(Tail(es), MethodsMapStep(map, Head(es), all), all)

\* The value of classStructMethodsMap: the methods of every key sorted by name.
BuildClassStructMethodsMap(all, es) ==
    LET map == MethodsMapLoop(es, <<>>, all)
    IN [key \in DOMAIN map |-> SortByName(map[key])]

\* The keys of a Map filled in the order of s: every value of s once, in
\* the order of its first occurrence.
KeysInOrder(s) ==
    LET first == {k \in 1..Len(s) : \A j \in 1..(k - 1) : s[j] # s[k]}
    IN [p \in 1..Cardinality(first) |->
           s[CHOOSE k \in first : Cardinality({j \in first : j <= k}) = p]]

getFolder(node) ==
    IF node.filename = <<>> THEN <<"Unknown">>
    ELSE IF getNodeFolder(node) = <<>> THEN <<"Root">>
    ELSE getNodeFolder(node)

getFileName(node) ==
    IF node.filename = <<>> THEN <<"Unknown">>
    ELSE LET last == SubSeq(node.filename, LastSeparator(node.filename) + 1,
                            Len(node.filename))
         IN IF last = <<>> THEN <<"Unknown">> ELSE last

\* methodsInClassStructs: the ids of the methods in the lists of the map
methodsInClassStructs(map) ==
    UNION {{map[key][k].id : k \in 1..Len(map[key])} : key \in DOMAIN map}

\* A faulty IsSkipped: no method is skipped.
IsSkippedNever(node, map) == FALSE

\* The guard of the early return in nodes.forEach: the node is a method
\* that belongs to a class_struct.
IsSkipped(node, map) ==
    node.type = "method" /\ node.id \in methodsInClassStructs(map)

\* What is pushed for the node: { classStruct, methods } for a class_struct
\* with methods, the node itself otherwise.
ItemOf(node, map) ==
    IF node.type = "class_struct" /\ MapGet(map, node.id, <<>>) # <<>>
    THEN [classStruct |-> node, methods |-> map[node.id]]
    ELSE node

\* 'classStruct' in a ? a.classStruct.name : a.name
ItemName(item) ==
    IF "classStruct" \in DOMAIN item THEN item.classStruct.name ELSE item.name

\* The files of a folder: the items of each file sorted by name, the files
\* sorted by file name.
FileGroups(ns, map) ==
    LET fileNames == KeysInOrder([k \in 1..Len(ns) |-> getFileName(ns[k])])
        inFile(fileName) == SelectSeq(ns, LAMBDA n : getFileName(n) = fileName)
        itemsOf(fileName) == [k \in 1..Len(inFile(fileName)) |->
                                 ItemOf(inFile(fileName)[k], map)]
        files == [p \in 1..Len(fileNames) |->
                     [fileName |-> fileNames[p],
                      items |-> Sort(itemsOf(fileNames[p]),
                                     [k \in 1..Len(itemsOf(fileNames[p])) |->
                                         ItemName(itemsOf(fileNames[p])[k])])]]
    IN Sort(files, [p \in 1..Len(files) |-> files[p].fileName])

\* The groups one segment adds: one per folder, in the order of
\* the first node of each folder.
SegmentFolderGroups(ns, seg, map) ==
    LET kept == SelectSeq(ns, LAMBDA n : ~IsSkipped(n, map))
        folders == KeysInOrder([k \in 1..Len(kept) |-> getFolder(kept[k])])
    IN [p \in 1..Len(folders) |->
           [folder |-> folders[p],
            segment |-> seg,
            files |-> FileGroups(SelectSeq(kept, LAMBDA n : getFolder(n) = folders[p]),
                                 map)]]

RECURSIVE FolderGroupsLoop(_, _, _, _)
FolderGroupsLoop(k, groups, segmentedNodes, map) ==
    IF k > Len(allSegments) THEN groups
    ELSE FolderGroupsLoop(k + 1,
             groups \o SegmentFolderGroups(segmentedNodes[allSegments[k]],
                                           allSegments[k], map),
             segmentedNodes, map)

\* The value of folderGroups: the groups of all segments sorted by folder.
BuildFolderGroups(segmentedNodes, map) ==
    LET groups == FolderGroupsLoop(1, <<>>, segmentedNodes, map)
    IN Sort(groups, [g \in 1..Len(groups) |-> groups[g].folder])

(***************************************************************************)
(* The panel specification: the initial state draws the nodes of the view  *)
(* and the edges of the document, the action renders the panel.            *)
(***************************************************************************)
\* parser.getNodes(), the nodes of the document
Catalog ==
    << NodeData(IdOf("class_struct", <<"Foo">>), "class_struct", <<"Foo">>,
                PlainFile, <<>>, {}),
       NodeData(MethodIdOf(<<"Foo">>, <<"bar">>), "method", <<"bar">>,
                PlainFile, <<>>, {}),
       NodeData(MethodIdOf(<<"Foo">>, <<"add">>), "method", <<"add">>,
                <<"src", "/", "api", "/", "handler", ".rs">>, <<>>, {}),
       NodeData(MethodIdOf(<<"Y">>, <<"z">>), "method", <<"z">>,
                TestsFile, <<>>, {}),
       NodeData(IdOf("class_struct", <<"Email", "Client">>), "class_struct",
                <<"Email", "Client">>,
                <<"src", "/", "gateway", "s", "/", "email", "_", "client", ".rs">>,
                <<>>, {}),
       NodeData(IdOf("enum", <<"Kind">>), "enum", <<"Kind">>, <<>>, <<>>, {"values"}),
       NodeData(IdOf("function", <<"helper">>), "function", <<"helper">>,
                <<"src", "\\", "infra", "\\", "db", ".rs">>, <<>>, {}) >>

\* parser.getEdges() draws from these: includes edges from a class to its
\* methods and to a missing node, and from a missing class; and a calls edge.
EdgePool ==
    { Edge(IdOf("class_struct", <<"Foo">>), MethodIdOf(<<"Foo">>, <<"bar">>), "includes"),
      Edge(IdOf("class_struct", <<"Foo">>), MethodIdOf(<<"Foo">>, <<"add">>), "includes"),
      Edge(IdOf("class_struct", <<"Foo">>), MethodIdOf(<<"Foo">>, <<"gone">>), "includes"),
      Edge(IdOf("class_struct", <<"Y">>), MethodIdOf(<<"Y">>, <<"z">>), "includes"),
      Edge(IdOf("class_struct", <<"Foo">>), MethodIdOf(<<"Foo">>, <<"bar">>), "calls") }

MaxViewNodes == 2
MaxEdges == 2

InitPanel ==
    /\ pc = "ready"
    /\ allNodes = Catalog
    /\ \E n \in 0..MaxViewNodes : nodes \in DistinctNodeLists({Catalog[k] : k \in 1..Len(Catalog)}, n)
    /\ \E m \in 0..MaxEdges : edges \in [1..m -> EdgePool]
    /\ segments = NoSegments
    /\ classStructMethodsMap = <<>>
    /\ folderGroups = <<>>
    /\ gridLayout = <<>>
    /\ items = <<>>
    /\ containerWidth = 0
    /\ options = NoOptions
    /\ result = NoResult
    /\ NoLayout
    /\ NoMenu
    /\ selectedCrate = NoCrate

\* One render of CustomDiagramPanel: the memoized values are computed from
\* the props.
RenderCustomDiagramPanel ==
    /\ pc = "ready"
    /\ pc' = "CustomDiagramPanel"
    /\ segments' = categorizeNodesBySegment(nodes)
    /\ gridLayout' = calculateGridLayout(segments')
    /\ classStructMethodsMap' = BuildClassStructMethodsMap(allNodes, edges)
    /\ folderGroups' = BuildFolderGroups(segments', classStructMethodsMap')
    /\ UNCHANGED <<items, containerWidth, options, result, nodes, allNodes, edges,
                   layoutVars, menuVars, selectedCrate>>

NextPanel == RenderCustomDiagramPanel

SpecPanel == InitPanel /\ [][NextPanel]_vars

(***************************************************************************)
(* Collapsing folders and files in CustomDiagramPanel                      *)
(* (src/.../components/LeftMenu.tsx).                                      *)
(***************************************************************************)
\* folder.split('/')[0] || folder
getBaseFolder(folder) ==
    LET at == {k \in 1..Len(folder) : folder[k] = "/"}
        first == IF at = {} THEN folder
                 ELSE SubSeq(folder, 1, (CHOOSE k \in at : \A j \in at : k <= j) - 1)
    IN IF first = <<>> THEN folder ELSE first

\* `${segment}::${folder}`
FolderKey(seg, folder) == <<seg, "::">> \o folder

\* `${segment}::${folder}|${fileName}`
FileKey(seg, folder, fileName) == FolderKey(seg, folder) \o <<"|">> \o fileName

isFolderCollapsed(seg, folder) ==
    IF expandAllState = "all-collapsed" THEN TRUE
    ELSE IF expandAllState = "all-expanded" THEN FALSE
    ELSE IF FolderKey(seg, folder) \in collapsedFolders THEN TRUE
    ELSE /\ getBaseFolder(folder) # folder
         /\ FolderKey(seg, getBaseFolder(folder)) \in collapsedFolders

isFileCollapsed(seg, folder, fileName) ==
    IF expandAllState = "all-collapsed" THEN TRUE
    ELSE IF expandAllState = "all-expanded" THEN FALSE
    ELSE FileKey(seg, folder, fileName) \in collapsedFiles

\* The set with the key removed when it has it, added when it has not.
Toggled(set, key) == IF key \in set THEN set \ {key} ELSE set \cup {key}

\* What is left alone by a click in the panel.
menuIdle ==
    UNCHANGED <<items, containerWidth, options, result, nodes, segments,
                layoutVars, panelVars, selectedCrate>>

toggleFolder(seg, folder) ==
    /\ expandAllState' = "none"
    /\ collapsedFolders' = Toggled(collapsedFolders, FolderKey(seg, folder))
    /\ pc' = "toggleFolder"
    /\ UNCHANGED collapsedFiles
    /\ menuIdle

toggleFile(seg, folder, fileName) ==
    /\ expandAllState' = "none"
    /\ collapsedFiles' = Toggled(collapsedFiles, FileKey(seg, folder, fileName))
    /\ pc' = "toggleFile"
    /\ UNCHANGED collapsedFolders
    /\ menuIdle

expandAll ==
    /\ expandAllState' = "all-expanded"
    /\ collapsedFolders' = {}
    /\ collapsedFiles' = {}
    /\ pc' = "expandAll"
    /\ menuIdle

collapseAll ==
    /\ expandAllState' = "all-collapsed"
    /\ pc' = "collapseAll"
    /\ UNCHANGED <<collapsedFolders, collapsedFiles>>
    /\ menuIdle

(***************************************************************************)
(* The menu specification: a mounted panel with folder groups in two       *)
(* segments; the user clicks folder headers, file headers and the two      *)
(* buttons in any order.                                                   *)
(***************************************************************************)
MenuSegments == {"left-middle", "middle-middle"}
MenuFolders == {<<"src">>, <<"src", "/", "api">>}
MenuFiles == {<<"lib", ".rs">>}

InitMenu ==
    /\ pc = "mounted"
    /\ NoMenu
    /\ items = <<>>
    /\ containerWidth = 0
    /\ options = NoOptions
    /\ result = NoResult
    /\ nodes = <<>>
    /\ segments = NoSegments
    /\ NoLayout
    /\ NoPanel
    /\ selectedCrate = NoCrate

NextMenu ==
    \/ \E seg \in MenuSegments, folder \in MenuFolders : toggleFolder(seg, folder)
    \/ \E seg \in MenuSegments, folder \in MenuFolders, fileName \in MenuFiles :
           toggleFile(seg, folder, fileName)
    \/ expandAll
    \/ collapseAll

SpecMenu == InitMenu /\ [][NextMenu]_vars

(***************************************************************************)
(* The queries of ERDParser (src/.../parser.ts).                           *)
(***************************************************************************)
\* this.data.nodes.find(n => n.id === id): << the node >>, or <<>>
getNodeById(ns, id) == FindById(ns, id)

\* The nodes pushed for the edges es, in the order of the edges: the node at
\* the other end of every edge that has nodeId at the end given.
RECURSIVE ConnectedLoop(_, _, _, _, _)
ConnectedLoop(es, nodeId, at, other, ns) ==
    IF es = <<>> THEN <<>>
    ELSE (IF Head(es)[at] = nodeId THEN getNodeById(ns, Head(es)[other]) ELSE <<>>)
         \o ConnectedLoop(Tail(es), nodeId, at, other, ns)

getConnectedNodes(nodeId, ns, es) ==
    [incoming |-> ConnectedLoop(es, nodeId, "to", "from", ns),
     outgoing |-> ConnectedLoop(es, nodeId, "from", "to", ns)]

\* this.data.nodes.filter(node => node.type.toLowerCase() === 'crate')
getCrates(ns) == SelectSeq(ns, LAMBDA n : LowerAtom(n.type) = "crate")

RECURSIVE NodesOfIds(_, _)
\* nodeIds.forEach: the node of every id that has one, in the order of the ids.
NodesOfIds(ids, ns) ==
    IF ids = <<>> THEN <<>>
    ELSE getNodeById(ns, Head(ids)) \o NodesOfIds(Tail(ids), ns)

\* The nodes the crate includes; nodeIds is a Set, filled in edge order.
getNodesByCrate(crateId, ns, es) ==
    LET included == SelectSeq(es, LAMBDA e :
                        e.from = crateId /\ LowerAtom(e.type) = "includes")
        nodeIds == KeysInOrder([k \in 1..Len(included) |-> included[k].to])
    IN NodesOfIds(nodeIds, ns)

(***************************************************************************)
(* The crate selection of CodeMatrixVisualizer                             *)
(* (src/.../components/CodeMatrixVisualizer.tsx) under the App that loads  *)
(* files into it (src/unnamed/part_007).  The loaded model is allNodes and *)
(* edges, crateNodes is nodes.                                             *)
(***************************************************************************)
\* useState(() => crates.length > 0 ? crates[0].id : null)
InitialCrate(crates) == IF crates # <<>> THEN crates[1].id ELSE NoCrate

\* The effect on [crates, selectedCrate]: the first crate is selected when
\* there are crates and none is selected.
AfterCratesEffect(crates, selected) ==
    IF crates # <<>> /\ selected = NoCrate THEN crates[1].id ELSE selected

\* const crateNodes = useMemo(...)
crateNodes(selected, ns, es) ==
    IF selected = NoCrate THEN ns ELSE getNodesByCrate(selected, ns, es)

CrateX == <<"crate", "::", "x">>
CrateY == <<"crate", "::", "y">>

\* The nodes a file is made of: two crates, one of them typed 'Crate', a
\* class and an enum.
ModelNodePool ==
    { NodeData(CrateX, "crate", <<"x">>, <<>>, <<>>, {}),
      NodeData(CrateY, "Crate", <<"y">>, <<>>, <<>>, {}),
      NodeData(IdOf("class_struct", <<"Foo">>), "class_struct", <<"Foo">>,
               PlainFile, <<>>, {}),
      NodeData(<<"crate", "::", "y", "|", "enum", "::", "Kind">>, "enum", <<"Kind">>,
               <<>>, <<>>, {"values"}) }

ModelEdgePool ==
    { Edge(CrateX, IdOf("class_struct", <<"Foo">>), "includes"),
      Edge(CrateY, <<"crate", "::", "y", "|", "enum", "::", "Kind">>, "Includes"),
      Edge(CrateX, <<"crate", "::", "y", "|", "enum", "::", "Kind">>, "calls") }

MaxModelNodes == 2
MaxModelEdges == 1

\* The files the user opens: node lists and edge lists over the two pools.
Models ==
    UNION {{[nodes |-> ns, edges |-> es] :
                ns \in DistinctNodeLists(ModelNodePool, n),
                es \in UNION {[1..m -> ModelEdgePool] : m \in 0..MaxModelEdges}} :
           n \in 0..MaxModelNodes}

\* What the visualizer leaves alone.
appIdle ==
    UNCHANGED <<items, containerWidth, options, result, segments, layoutVars,
                classStructMethodsMap, folderGroups, gridLayout, menuVars>>

\* The first file is loaded and CodeMatrixVisualizer is mounted with it.
InitApp ==
    /\ pc = "CodeMatrixVisualizer"
    /\ \E model \in Models :
          /\ allNodes = model.nodes
          /\ edges = model.edges
    /\ selectedCrate = InitialCrate(getCrates(allNodes))
    /\ nodes = crateNodes(selectedCrate, allNodes, edges)
    /\ classStructMethodsMap = <<>>
    /\ folderGroups = <<>>
    /\ gridLayout = <<>>
    /\ segments = NoSegments
    /\ items = <<>>
    /\ containerWidth = 0
    /\ options = NoOptions
    /\ result = NoResult
    /\ NoLayout
    /\ NoMenu

\* App.handleFileLoad: erdData is replaced, the mounted visualizer renders
\* again with its state kept, and its effect runs.
handleFileLoad(data) ==
    /\ allNodes' = data.nodes
    /\ edges' = data.edges
    /\ selectedCrate' = AfterCratesEffect(getCrates(data.nodes), selectedCrate)
    /\ nodes' = crateNodes(selectedCrate', allNodes', edges')
    /\ pc' = "handleFileLoad"
    /\ appIdle

\* The user picks a crate in the select of the toolbar, which lists the
\* crates of the loaded model and is drawn only when there are some.
handleCrateChange(crateId) ==
    /\ selectedCrate' = AfterCratesEffect(getCrates(allNodes), crateId)
    /\ nodes' = crateNodes(selectedCrate', allNodes, edges)
    /\ pc' = "handleCrateChange"
    /\ UNCHANGED <<allNodes, edges>>
    /\ appIdle

NextApp ==
    \/ \E data \in Models : handleFileLoad(data)
    \/ \E k \in 1..Len(getCrates(allNodes)) :
           handleCrateChange(getCrates(allNodes)[k].id)

SpecApp == InitApp /\ [][NextApp]_vars

(***************************************************************************)
(* The whole model: any of the specifications above.                       *)
(***************************************************************************)
Init == InitPack \/ InitCat \/ InitLayout \/ InitPanel \/ InitMenu \/ InitApp

Next == NextPack \/ NextCat \/ NextLayout \/ NextPanel \/ NextMenu \/ NextApp

Spec == Init /\ [][Next]_vars

(***************************************************************************)
(* Properties of the packers.                                              *)
(***************************************************************************)
\* The padding the call used.
PaddingUsed == OrDefault(options.padding, DefaultPadding)

\* Two rectangles [x, x+width) x [y, y+height) share a point.
Overlap(a, b) ==
    /\ a.x < b.x + b.width
    /\ b.x < a.x + a.width
    /\ a.y < b.y + b.height
    /\ b.y < a.y + a.height

NoTwoOverlap(packed) ==
    \A i, j \in 1..Len(packed) : i < j => ~ Overlap(packed[i], packed[j])

WithinWidth(packed, cw) ==
    \A k \in 1..Len(packed) : packed[k].x + packed[k].width <= cw

\* The output item packed[k] is the input item it, positioned.
SameItem(out, it) ==
    /\ out.id = it.id
    /\ out.width = it.width
    /\ out.height = it.height
    /\ out.data = it.data

\* C2: the shelf packer and the guillotine packer never output two items
\* whose rectangles overlap.
C2_ShelfGuillotineNoOverlap ==
    pc \in {"packItems", "packItemsGuillotine"} => NoTwoOverlap(result.items)

\* A guillotine run that put two items side by side and a third below them.
C2_Witness ==
    /\ pc = "packItemsGuillotine"
    /\ Len(result.items) = 3
    /\ result.items[2].y = result.items[1].y
    /\ result.items[2].x > result.items[1].x
    /\ result.items[3].y > result.items[1].y

\* C3: the column packer never outputs two items whose rectangles overlap,
\* items of adjacent columns included.
C3_ColumnsNoOverlap ==
    pc = "packIntoColumns" => NoTwoOverlap(result.items)

\* C4: every item the shelf packer outputs satisfies x + width <= containerWidth,
\* on an existing shelf and on a new one.
C4_ShelfWithinWidth ==
    pc = "packItems" => WithinWidth(result.items, containerWidth)

\* C5: every item the guillotine packer outputs satisfies
\* x + width <= containerWidth.
C5_GuillotineWithinWidth ==
    pc = "packItemsGuillotine" => WithinWidth(result.items, containerWidth)

\* A guillotine run that placed an item to the right of another one, flush with
\* the right edge of the container's interior.
C5_Witness ==
    /\ pc = "packItemsGuillotine"
    /\ Len(result.items) >= 2
    /\ \E k \in 1..Len(result.items) :
          /\ result.items[k].x > PaddingUsed
          /\ result.items[k].x + result.items[k].width + 2 * PaddingUsed
                 = containerWidth

\* C6: every item the column packer outputs satisfies x + width <= containerWidth.
C6_ColumnsWithinWidth ==
    pc = "packIntoColumns" => WithinWidth(result.items, containerWidth)

\* C7: for each packer and every input, the empty list included, the reported
\* containerHeight is at least y + height of every output item (and at least 0,
\* the maximum over no item).
C7_HeightCoversItems ==
    pc # "ready" =>
        /\ result.containerHeight >= 0
        /\ \A k \in 1..Len(result.items) :
              result.items[k].y + result.items[k].height <= result.containerHeight

\* A guillotine run whose lowest item is taller than the padding.
C7_Witness ==
    /\ pc = "packItemsGuillotine"
    /\ Len(result.items) >= 2
    /\ \E k \in 1..Len(result.items) :
          /\ result.items[k].y > PaddingUsed
          /\ result.items[k].height > PaddingUsed
          /\ result.items[k].y + result.items[k].height + PaddingUsed
                 = result.containerHeight

\* C8: each packer outputs exactly one positioned item for every input item,
\* with the item's id, width, height and payload unchanged.
C8_EveryItemOnce ==
    pc # "ready" =>
        /\ Len(result.items) = Len(items)
        /\ \A i \in 1..Len(items) :
              Cardinality({k \in 1..Len(result.items) :
                              SameItem(result.items[k], items[i])}) = 1

\* The second item of a two-item shelf run fails the test of the first shelf.
SecondOpensShelf ==
    /\ pc = "packItems"
    /\ Len(result.items) = 2
    /\ \/ result.items[1].width + result.items[2].width + 2 * PaddingUsed
              > containerWidth
       \/ result.items[2].height > result.items[1].height

\* C9 as stated: the second item that does not fit on the first shelf is placed
\* at x = padding and y = (height of the first item) + padding.
C9_SecondShelfAtHeightPlusPadding ==
    SecondOpensShelf =>
        /\ result.items[2].x = PaddingUsed
        /\ result.items[2].y = result.items[1].height + PaddingUsed

\* C9 as amended: the second item that does not fit on the first shelf is placed
\* at x = padding and y = padding + (height of the first item) + padding, the
\* first shelf starting at y = padding.
C9_SecondShelfBelowFirst ==
    SecondOpensShelf =>
        /\ result.items[1].x = PaddingUsed
        /\ result.items[1].y = PaddingUsed
        /\ result.items[2].x = PaddingUsed
        /\ result.items[2].y = PaddingUsed + result.items[1].height + PaddingUsed

\* Two items of equal size, together wider than the container (the shape of
\* two 50x30 items in a container of width 60).
C9_Witness ==
    /\ SecondOpensShelf
    /\ result.items[1].width = result.items[2].width
    /\ result.items[1].height = result.items[2].height
    /\ result.items[1].width <= containerWidth
    /\ result.items[1].width + result.items[2].width > containerWidth

(***************************************************************************)
(* Properties of the classifier.                                           *)
(***************************************************************************)
\* The 16 fixed segments.
SixteenSegments ==
    {"left-top", "left-middle", "left-bottom", "left-tests",
     "middle-top", "middle-middle", "middle-bottom", "middle-tests",
     "right-top", "right-middle", "right-bottom", "right-tests",
     "gateway-top", "gateway-middle", "gateway-bottom", "gateway-tests"}

\* How often node n occurs in the list s.
Occurrences(s, n) == Cardinality({k \in 1..Len(s) : s[k] = n})

\* How often node n occurs in the buckets named by segs.
RECURSIVE OccurrencesIn(_, _)
OccurrencesIn(segs, n) ==
    IF segs = {} THEN 0
    ELSE LET seg == CHOOSE x \in segs : TRUE
         IN Occurrences(segments[seg], n) + OccurrencesIn(segs \ {seg}, n)

\* The buckets that hold node n.
BucketsOf(n) == {seg \in DOMAIN segments : Occurrences(segments[seg], n) > 0}

Categorized == pc = "categorizeNodesBySegment"

\* C1: the map returned has exactly the 16 fixed segments as keys; every
\* input node that is not crate-typed is in exactly one bucket, there as often
\* as it is in the input (once); no crate-typed node and no node that was not
\* in the input is in any bucket.
C1_BucketsPartitionNodes ==
    Categorized =>
        /\ DOMAIN segments = SixteenSegments
        /\ \A k \in 1..Len(nodes) :
              LET buckets == BucketsOf(nodes[k])
              IN IF LowerAtom(nodes[k].type) = "crate"
                 THEN buckets = {}
                 ELSE /\ Cardinality(buckets) = 1
                      /\ OccurrencesIn(buckets, nodes[k]) = Occurrences(nodes, nodes[k])
        /\ \A seg \in DOMAIN segments : \A k \in 1..Len(segments[seg]) :
              Occurrences(nodes, segments[seg][k]) > 0

\* A crate node written 'Crate' and a struct were classified: the struct is in
\* a bucket, 15 buckets are empty.
C1_Witness ==
    /\ Categorized
    /\ Len(nodes) = 2
    /\ nodes[1].type = "Crate"
    /\ nodes[2].type = "struct"
    /\ Cardinality({seg \in DOMAIN segments : segments[seg] = <<>>}) = 15
    /\ Cardinality(BucketsOf(nodes[2])) = 1

\* The column of a segment name.
ColumnOfSegment(seg) ==
    CHOOSE c \in Columns : \E r \in Rows : SegmentName(c, r) = seg

\* The column node n was put in, for a node in exactly one bucket.
ColumnPut(n) == ColumnOfSegment(CHOOSE seg \in BucketsOf(n) : TRUE)

\* C10: every node that is not crate-typed is put in the column of the first
\* rule it matches in the order gateway, right (infra), left (api or
\* contract), middle (no rule).
C10_ColumnByFirstMatch ==
    Categorized =>
        \A k \in 1..Len(nodes) :
            LowerAtom(nodes[k].type) # "crate" =>
                LET gateway == hasGatewayInPath(nodes[k])
                    infra == hasInfraInPath(nodes[k])
                    api == hasApiOrContractInPath(nodes[k])
                    column == ColumnPut(nodes[k])
                IN /\ BucketsOf(nodes[k]) # {}
                   /\ gateway => column = "gateway"
                   /\ (~ gateway /\ infra) => column = "right"
                   /\ (~ gateway /\ ~ infra /\ api) => column = "left"
                   /\ (~ gateway /\ ~ infra /\ ~ api) => column = "middle"

\* A node under both an infra and a gateway folder was put in the gateway
\* column, and a node under both an infra and an api folder in the right one.
C10_Witness ==
    /\ Categorized
    /\ Len(nodes) = 2
    /\ hasGatewayInPath(nodes[1]) /\ hasInfraInPath(nodes[1])
    /\ ColumnPut(nodes[1]) = "gateway"
    /\ ~ hasGatewayInPath(nodes[2])
    /\ hasInfraInPath(nodes[2]) /\ hasApiOrContractInPath(nodes[2])
    /\ ColumnPut(nodes[2]) = "right"

\* The row of a segment name.
RowOfSegment(seg) ==
    CHOOSE r \in Rows : \E c \in Columns : SegmentName(c, r) = seg

\* The row node n was put in, for a node in exactly one bucket.
RowPut(n) == RowOfSegment(CHOOSE seg \in BucketsOf(n) : TRUE)

\* The filename holds the path segment tests/.
InTestsFolder(n) == Includes(n.filename, <<"test", "s", "/">>)

\* Node n is in a bucket, and every bucket that holds it is of the tests row.
PlacedInTestsRow(n) ==
    LET buckets == BucketsOf(n)
    IN /\ buckets # {}
       /\ \A seg \in buckets : RowOfSegment(seg) = "tests"

\* C11 as stated: every input node whose filename contains the path segment
\* tests/ is placed in a bucket of the tests row, regardless of its type tag.
C11_TestsFolderInTestsRow ==
    Categorized =>
        \A k \in 1..Len(nodes) :
            InTestsFolder(nodes[k]) => PlacedInTestsRow(nodes[k])

\* C11 as amended: every input node that is not crate-typed and whose filename
\* contains the path segment tests/ is placed in a bucket of the tests row,
\* whatever its type tag; a crate-typed node is in no bucket.
C11_NonCrateTestsFolderInTestsRow ==
    Categorized =>
        \A k \in 1..Len(nodes) :
            InTestsFolder(nodes[k]) =>
                IF LowerAtom(nodes[k].type) = "crate"
                THEN BucketsOf(nodes[k]) = {}
                ELSE PlacedInTestsRow(nodes[k])

\* An enum and a class_struct of tests/y_test.rs, which no other tests rule
\* matches, were both put in the tests row.
C11_Witness ==
    /\ Categorized
    /\ Len(nodes) = 2
    /\ nodes[1].type = "enum" /\ nodes[2].type = "class_struct"
    /\ \A k \in 1..2 :
          /\ InTestsFolder(nodes[k])
          /\ ~ isTestNodeWithoutTestsFolder(nodes[k])
          /\ RowPut(nodes[k]) = "tests"

\* The row the type tag and the details of node n call for.
RowByTypeAndDetails(n) ==
    LET type == LowerAtom(n.type)
        withMethods == "methods" \in n.details \/ "functions" \in n.details
    IN CASE type = "enum" -> "top"
         [] type \in {"struct", "dto"} /\ ~ withMethods -> "top"
         [] type \in {"struct", "dto"} /\ withMethods -> "middle"
         [] type \in {"class_struct", "method"} -> "middle"
         [] type = "function" -> "bottom"
         [] OTHER -> "middle"

\* C12: for every node that is not crate-typed and matches no tests rule, the
\* row is top for an enum and for a struct or dto with neither methods nor
\* functions in its details, middle for a class_struct, a method and a struct
\* or dto with methods or functions, bottom for a function, and middle for
\* every other type.
C12_RowByTypeAndDetails ==
    Categorized =>
        \A k \in 1..Len(nodes) :
            (LowerAtom(nodes[k].type) # "crate" /\ ~ isTestNode(nodes[k])) =>
                /\ BucketsOf(nodes[k]) # {}
                /\ RowPut(nodes[k]) = RowByTypeAndDetails(nodes[k])

\* A struct with attributes only was put in the top row and a struct with
\* methods in the middle row.
C12_Witness ==
    /\ Categorized
    /\ Len(nodes) = 2
    /\ nodes[1].type = "struct" /\ nodes[1].details = {"attributes"}
    /\ ~ isTestNode(nodes[1])
    /\ RowPut(nodes[1]) = "top"
    /\ nodes[2].type = "struct" /\ nodes[2].details = {"methods"}
    /\ ~ isTestNode(nodes[2])
    /\ RowPut(nodes[2]) = "middle"

\* The filename has a directory component exactly equal to folder: the
\* component starts the path or follows a separator, and a separator follows.
HasFolderNamed(filename, folder) ==
    \E k \in 1..(Len(filename) - 1) :
        /\ filename[k] = folder
        /\ IsSeparator(filename[k + 1])
        /\ (k = 1 \/ IsSeparator(filename[k - 1]))

\* C13: every node whose filename has a directory component exactly equal to
\* infra, at any depth, the first component of a relative path included, and
\* that matches no gateway rule, is placed in the right column.
C13_InfraFolderInRightColumn ==
    Categorized =>
        \A k \in 1..Len(nodes) :
            (/\ LowerAtom(nodes[k].type) # "crate"
             /\ HasFolderNamed(nodes[k].filename, "infra")
             /\ ~ hasGatewayInPath(nodes[k])) =>
                ColumnPut(nodes[k]) = "right"

(***************************************************************************)
(* Properties of the segment layout.                                       *)
(***************************************************************************)
LaidOut == pc = "layoutNodesInSegment"

\* The index of a column and of a row of the grid.
ColumnIndex(column) ==
    CASE column = "left" -> 0 [] column = "middle" -> 1
      [] column = "right" -> 2 [] column = "gateway" -> 3

RowIndex(row) ==
    CASE row = "top" -> 0 [] row = "middle" -> 1
      [] row = "bottom" -> 2 [] row = "tests" -> 3

\* C14: for the segment of column index c (left 0, middle 1, right 2,
\* gateway 3) and row index r (top 0, middle 1, bottom 2, tests 3), every
\* rectangle returned has x >= c * columnWidth and y >= r * rowHeight.
C14_AtOrBeyondSegmentOrigin ==
    LaidOut =>
        \A k \in 1..Len(positions) :
            /\ positions[k].x >= ColumnIndex(ColumnOfSegment(segment)) * config.columnWidth
            /\ positions[k].y >= RowIndex(RowOfSegment(segment)) * config.rowHeight

\* C15: for every segment, node list and configuration with positive box
\* sizes, no two rectangles returned by one call overlap.
C15_LayoutNoOverlap ==
    LaidOut => NoTwoOverlap(positions)

\* C16: exactly one rectangle is returned for every node of the input list,
\* in the middle row also for a method whose owning class is not in the list.
C16_OneRectanglePerNode ==
    LaidOut =>
        /\ Len(positions) = Len(nodes)
        /\ \A k \in 1..Len(nodes) :
              Cardinality({j \in 1..Len(positions) : positions[j].node = nodes[k]}) = 1

\* C17: the call does not modify its input; after it, for every row kind, the
\* caller's list holds the same nodes in the same order as before.
C17_InputUnchanged ==
    [][pc' = "layoutNodesInSegment" => nodes' = nodes]_vars


(***************************************************************************)
(* Properties of the panel: the class-to-methods map, the folder groups    *)
(* and the column widths.                                                  *)
(***************************************************************************)
Rendered == pc = "CustomDiagramPanel"

\* The nodes of the document.
DocumentNodes == {allNodes[k] : k \in 1..Len(allNodes)}

\* The node is the target of an includes edge from the id.
IncludedFrom(id, node) ==
    \E k \in 1..Len(edges) :
        edges[k].type = "includes" /\ edges[k].from = id /\ edges[k].to = node.id

\* C18: for every class node C, the list classStructMethodsMap attaches to C
\* contains each method node that is the target of an includes edge from C
\* exactly once, and no other node.
C18_EachIncludedMethodOnce ==
    Rendered =>
        \A C \in {n \in DocumentNodes : n.type = "class_struct"} :
            LET list == MapGet(classStructMethodsMap, C.id, <<>>)
            IN \A n \in DocumentNodes :
                   Occurrences(list, n) =
                       IF n.type = "method" /\ IncludedFrom(C.id, n) THEN 1 ELSE 0

\* The node is attached to some class by an includes edge.
AttachedToClass(node) ==
    \E k \in 1..Len(edges) :
        /\ edges[k].type = "includes"
        /\ Includes(edges[k].from, <<"class_struct", "::">>)
        /\ edges[k].to = node.id

\* The items of all files of all folder groups.
RenderedItems ==
    UNION {UNION {{folderGroups[g].files[f].items[k] :
                       k \in 1..Len(folderGroups[g].files[f].items)} :
                  f \in 1..Len(folderGroups[g].files)} :
           g \in 1..Len(folderGroups)}

StandaloneItems == {item \in RenderedItems : "classStruct" \notin DOMAIN item}

ColumnTotal(column) ==
    Len(segments[SegmentName(column, "top")])
    + Len(segments[SegmentName(column, "middle")])
    + Len(segments[SegmentName(column, "bottom")])
    + Len(segments[SegmentName(column, "tests")])

WidthByTotal(column) == IF ColumnTotal(column) = 0 THEN "1/3fr" ELSE "1fr"

\* C20: calculateGridLayout gives the gateway column '1/3fr'; each of the
\* left, middle and right columns gets '1/3fr' when the sum of its four
\* bucket sizes is 0 and '1fr' otherwise; no column gets '2/3fr'.
C20_ColumnWidths ==
    Rendered =>
        /\ gridLayout.gatewayColumnWidth = "1/3fr"
        /\ gridLayout.leftColumnWidth = WidthByTotal("left")
        /\ gridLayout.middleColumnWidth = WidthByTotal("middle")
        /\ gridLayout.rightColumnWidth = WidthByTotal("right")
        /\ \A field \in DOMAIN gridLayout : gridLayout[field] # "2/3fr"

\* The gateway column has nodes, one of the other columns has nodes in its
\* tests row only and another one has none.
C20_Witness ==
    /\ Rendered
    /\ ColumnTotal("gateway") > 0
    /\ \E column \in {"left", "middle", "right"} :
          /\ ColumnTotal(column) > 0
          /\ ColumnTotal(column) = Len(segments[SegmentName(column, "tests")])
    /\ \E column \in {"left", "middle", "right"} : ColumnTotal(column) = 0

(***************************************************************************)
(* The padding a caller supplies.                                          *)
(***************************************************************************)
\* C21: for every padding p >= 0 given in the options, each packer uses p:
\* the first item of a non-empty result is placed at x = p and y = p.
C21_SuppliedPaddingUsed ==
    (/\ pc \in {"packItems", "packItemsGuillotine", "packIntoColumns"}
     /\ options.padding # Absent
     /\ result.items # <<>>)
        => /\ result.items[1].x = options.padding[1]
           /\ result.items[1].y = options.padding[1]

\* C22: a second call of layoutNodesInSegment with the same list object,
\* segment and configuration returns the rectangle list of the first call:
\* the same nodes, order and coordinates, for every row kind.
C22_SecondCallSameResult ==
    [][(pc = "layoutNodesInSegment" /\ pc' = "layoutNodesInSegmentAgain")
           => positions' = positions]_vars

\* The second call has returned for a row whose branch sorts the list in
\* place, with several rectangles.
C22_Witness ==
    /\ pc = "layoutNodesInSegmentAgain"
    /\ SplitSegment(segment)[2] \in {"bottom", "tests"}
    /\ Len(positions) >= 2
    /\ nodes = SortByName(nodes)

\* The indices of the rectangles of the methods of the list whose owning
\* class is the node.
MethodRectsOf(classNode) ==
    {k \in 1..Len(positions) :
        /\ isMethod(positions[k].node)
        /\ getParentClassId(positions[k].node) = classNode.id}

\* The methods of the list whose owning class is the node.
MethodsInListOf(classNode) ==
    {k \in 1..Len(nodes) :
        isMethod(nodes[k]) /\ getParentClassId(nodes[k]) = classNode.id}

\* The indices of the rectangles of class nodes.
ClassRects == {i \in 1..Len(positions) : isClassStruct(positions[i].node)}

\* C26: in a middle-row segment every class with its methods is one vertical
\* stack: the class rectangle, of the class box size, is followed by the
\* rectangles of all its methods, of the method box size, at the same x and
\* with strictly increasing y, in alphabetical order of the method names; the
\* groups come in alphabetical order of the class names.
C26_ClassStacks ==
    (LaidOut /\ RowOfSegment(segment) = "middle") =>
        /\ \A n \in 1..Len(nodes) :
               isClassStruct(nodes[n]) => \E i \in ClassRects : positions[i].node = nodes[n]
        /\ \A i \in ClassRects :
               LET class == positions[i]
                   ms == MethodRectsOf(class.node)
               IN /\ class.width = config.classNodeWidth
                  /\ class.height = config.classNodeHeight
                  /\ Cardinality(ms) = Cardinality(MethodsInListOf(class.node))
                  /\ ms = (i + 1)..(i + Cardinality(ms))
                  /\ \A k \in ms :
                         /\ positions[k].x = class.x
                         /\ positions[k].width = config.methodNodeWidth
                         /\ positions[k].height = config.methodNodeHeight
                         /\ positions[k].y > positions[k - 1].y
                         /\ k > i + 1 =>
                                localeCompare(positions[k - 1].node.name,
                                              positions[k].node.name) <= 0
        /\ \A i, j \in ClassRects :
               i < j => localeCompare(positions[i].node.name, positions[j].node.name) <= 0

\* A class with two methods is laid out in a middle row; the list has the
\* methods in another order than that of their names.
C26_Witness ==
    /\ LaidOut
    /\ RowOfSegment(segment) = "middle"
    /\ \E i \in ClassRects :
          /\ Cardinality(MethodRectsOf(positions[i].node)) = 2
          /\ \E a, b \in MethodsInListOf(positions[i].node) :
                 a < b /\ localeCompare(nodes[a].name, nodes[b].name) > 0

\* The widest box of the configuration.
WidestBox ==
    MaxOf(MaxOf(config.dataTypeBoxWidth, config.structWithMethodsBoxWidth),
          MaxOf(config.classNodeWidth, config.methodNodeWidth))

\* C27: when every box width is <= columnWidth - 2 * padding, every rectangle
\* returned stays inside the column of its segment:
\* x + width <= baseX + columnWidth, for every row.
C27_WithinColumn ==
    (LaidOut /\ WidestBox <= config.columnWidth - 2 * config.padding) =>
        \A k \in 1..Len(positions) :
            positions[k].x + positions[k].width
                <= BaseX(SplitSegment(segment)[1], config) + config.columnWidth

(***************************************************************************)
(* Properties of the collapse state.                                       *)
(***************************************************************************)
\* The folders without a parent folder.
TopLevelFolders == {folder \in MenuFolders : getBaseFolder(folder) = folder}

\* C23: after any sequence of expandAll, collapseAll, toggleFolder and
\* toggleFile, toggleFolder on a top-level folder flips the displayed state of
\* that folder: collapsed becomes expanded and expanded becomes collapsed.
C23_ToggleFolderFlips ==
    [][\A seg \in MenuSegments, folder \in TopLevelFolders :
           toggleFolder(seg, folder)
               => (isFolderCollapsed(seg, folder)' # isFolderCollapsed(seg, folder))]_vars


\* The ids of the nodes of the document.
DocumentIds == {n.id : n \in DocumentNodes}

\* An end of the edge is the id of no node of the document.
Dangling(edge) == edge.from \notin DocumentIds \/ edge.to \notin DocumentIds

\* The ids a caller can ask about: those of the nodes and of the edge ends.
AskedIds == DocumentIds \cup UNION {{edges[k].from, edges[k].to} : k \in 1..Len(edges)}

\* Removing the k-th edge changes nothing in what getConnectedNodes returns.
ConnectedSameWithout(k) ==
    \A id \in AskedIds :
        getConnectedNodes(id, allNodes, edges)
            = getConnectedNodes(id, allNodes, RemoveAt(edges, k))

\* Removing the k-th edge changes nothing in the class-to-methods map.
MethodsMapSameWithout(k) ==
    classStructMethodsMap = BuildClassStructMethodsMap(allNodes, RemoveAt(edges, k))

\* C24: an edge whose from or to id matches no node is ignored:
\* getConnectedNodes and the class-to-methods map return the same result as
\* they would with that edge removed from the edge list.
C24_DanglingEdgeIgnored ==
    Rendered =>
        \A k \in 1..Len(edges) :
            Dangling(edges[k]) => ConnectedSameWithout(k) /\ MethodsMapSameWithout(k)


(***************************************************************************)
(* Properties of shelf packing, read off the returned items alone.         *)
(***************************************************************************)
\* A shelf is known by its y. The item that opened the shelf at y is the
\* first returned item with that y.
ShelvesBefore(i) == {result.items[j].y : j \in 1..(i - 1)}

Opener(y) ==
    CHOOSE j \in 1..Len(result.items) :
        /\ result.items[j].y = y
        /\ \A m \in 1..(j - 1) : result.items[m].y # y

\* The height of the shelf at y: the padded height of its opener.
ShelfHeightAt(y) == result.items[Opener(y)].height + PaddingUsed

RECURSIVE UsedWidth(_, _)
\* The used width of the shelf at y after the first n items: the padded
\* widths of those of them that stand on it.
UsedWidth(y, n) ==
    IF n = 0 THEN 0
    ELSE UsedWidth(y, n - 1)
         + (IF result.items[n].y = y THEN result.items[n].width + PaddingUsed ELSE 0)

\* The shelf at y takes the i-th item.
Qualifies(y, i) ==
    /\ UsedWidth(y, i - 1) + result.items[i].width + PaddingUsed <= containerWidth
    /\ ShelfHeightAt(y) >= result.items[i].height + PaddingUsed

QualifyingShelves(i) == {y \in ShelvesBefore(i) : Qualifies(y, i)}

\* The qualifying shelf that was created first.
EarliestQualifying(i) ==
    CHOOSE y \in QualifyingShelves(i) :
        \A other \in QualifyingShelves(i) : Opener(y) <= Opener(other)

\* The items are returned in the order they were processed in.
ProcessedInOrder ==
    /\ Len(result.items) = Len(items)
    /\ IF options.sortByHeight = Given(FALSE)
       THEN \A k \in 1..Len(items) : result.items[k].id = items[k].id
       ELSE \A k \in 1..(Len(result.items) - 1) :
                result.items[k].height >= result.items[k + 1].height

\* C25: in shelf packing the items are processed in descending height order
\* unless sortByHeight is false; each item is placed on the earliest-created
\* shelf whose used width plus the item's padded width is at most
\* containerWidth and whose height is at least the item's padded height, at
\* that shelf's current x offset and y; only when no shelf qualifies is a new
\* shelf opened, below all previous shelves.
C25_FirstFitShelf ==
    pc = "packItems" =>
        /\ ProcessedInOrder
        /\ \A i \in 1..Len(result.items) :
               IF QualifyingShelves(i) # {}
               THEN /\ result.items[i].y = EarliestQualifying(i)
                    /\ result.items[i].x = UsedWidth(EarliestQualifying(i), i - 1)
               ELSE /\ result.items[i].y \notin ShelvesBefore(i)
                    /\ \A y \in ShelvesBefore(i) :
                           result.items[i].y >= y + ShelfHeightAt(y)

\* The third item qualifies for both shelves opened before it and stands on
\* the first of them; the input was not in descending height order.
C25_Witness ==
    /\ pc = "packItems"
    /\ options.sortByHeight = Given(FALSE)
    /\ Len(result.items) = 3
    /\ result.items[1].height < result.items[2].height
    /\ Cardinality(QualifyingShelves(3)) = 2
    /\ result.items[3].y = result.items[1].y


(***************************************************************************)
(* Properties of guillotine packing: the free rectangles after each        *)
(* placement.                                                              *)
(***************************************************************************)
\* The items in the order packItemsGuillotine processes them.
GuillotineOrder == SortDesc(items, "area")

\* The free rectangles and the placed items before the n-th item is processed.
GuillotineBefore(n) ==
    GuillotineLoop(SubSeq(GuillotineOrder, 1, n - 1),
                   GuillotineStart(containerWidth, PaddingUsed), PaddingUsed)

\* The free rectangle chosen for the n-th item; 0 when the item is not placed.
ChosenFor(n) ==
    BestRect(GuillotineBefore(n).freeRects,
             GuillotineOrder[n].width + PaddingUsed,
             GuillotineOrder[n].height + PaddingUsed)

\* The free rectangles after the n-th item is placed, before the prune step.
BeforePrune(n) ==
    RemoveAt(GuillotineBefore(n).freeRects, ChosenFor(n))
        \o SplitRects(GuillotineBefore(n).freeRects[ChosenFor(n)],
                      GuillotineOrder[n].width + PaddingUsed,
                      GuillotineOrder[n].height + PaddingUsed)

\* The rectangle a placed item takes with its padding.
PaddedRect(item) ==
    FreeRect(item.x, item.y, item.width + PaddingUsed, item.height + PaddingUsed)

\* C29: in guillotine packing, after every placement the free rectangles are
\* pairwise non-overlapping and disjoint from the padded rectangle of every
\* placed item, so the overlap-prune step never removes a free rectangle.
C29_FreeRectsDisjoint ==
    pc = "packItemsGuillotine" =>
        \A n \in 1..Len(items) :
            ChosenFor(n) # 0 =>
                LET after == GuillotineBefore(n + 1)
                IN /\ \A i, j \in 1..Len(after.freeRects) :
                          i # j => ~ rectanglesOverlap(after.freeRects[i], after.freeRects[j])
                   /\ \A i \in 1..Len(after.freeRects), k \in 1..Len(after.packed) :
                          ~ rectanglesOverlap(after.freeRects[i], PaddedRect(after.packed[k]))
                   /\ after.freeRects = BeforePrune(n)

\* Three items are placed and three free rectangles are left: two to the
\* right of items and one below them.
C29_Witness ==
    /\ pc = "packItemsGuillotine"
    /\ Len(result.items) = 3
    /\ result.items = GuillotineBefore(4).packed
    /\ Len(GuillotineBefore(4).freeRects) = 3


\* The places the node is rendered at: << group, file, item, 0 >> where it is
\* a standalone item or the class of a class group, << group, file, item, m >>
\* where it is the m-th method of a class group.
PlacesInItem(node, item) ==
    IF "classStruct" \in DOMAIN item
    THEN (IF item.classStruct = node THEN {0} ELSE {})
         \cup {m \in 1..Len(item.methods) : item.methods[m] = node}
    ELSE IF item = node THEN {0} ELSE {}

RenderPlaces(node) ==
    UNION {UNION {UNION {{<<g, f, k, m>> :
                              m \in PlacesInItem(node, folderGroups[g].files[f].items[k])} :
                         k \in 1..Len(folderGroups[g].files[f].items)} :
                  f \in 1..Len(folderGroups[g].files)} :
           g \in 1..Len(folderGroups)}

\* C28: each non-crate node of the view is rendered exactly once across all
\* folder/file groups: as a standalone item, as the class of one class group,
\* or as a method inside exactly one class group.
C28_EachViewNodeOnce ==
    Rendered =>
        \A k \in 1..Len(nodes) :
            nodes[k].type # "crate" => Cardinality(RenderPlaces(nodes[k])) = 1


(***************************************************************************)
(* Properties of the crate selection.                                      *)
(***************************************************************************)
\* The ids of the crates of the loaded model.
CrateIds == {getCrates(allNodes)[k].id : k \in 1..Len(getCrates(allNodes))}

\* C30: after any sequence of model loads and crate selections, whenever the
\* loaded model contains at least one crate node, selectedCrate is the id of
\* a crate node of the loaded model.
C30_SelectedCrateOfModel ==
    pc \in {"CodeMatrixVisualizer", "handleFileLoad", "handleCrateChange"} =>
        (CrateIds # {} => selectedCrate \in CrateIds)

====
